---- MODULE Spec2Model ----
(***************************************************************************)
(* Cursor Economizer: the cross-window synchronisation protocol.           *)
(*                                                                         *)
(* Several extension-host processes (one per window) share one sql.js      *)
(* database file (usage.db), one lock file (fetch.lock) and one            *)
(* notification file (db-updated.json).  Every process keeps its own       *)
(* in-memory copy of the database (DbService.db) and exchanges it with the *)
(* file through reload() and persist().                                    *)
(*                                                                         *)
(* Time is Date.now() in milliseconds.  ISO-8601 strings written by        *)
(* toISOString() have a fixed width, so their string order is the order of *)
(* the instants they denote; fetched_at and startedAt are kept as the      *)
(* millisecond value.                                                      *)
(***************************************************************************)
EXTENDS Integers, Sequences, FiniteSets, TLC

(***************************************************************************)
(* Bounds of the model.                                                    *)
(***************************************************************************)
MaxBatch == 2
MaxDays == 2
MaxSummaries == 1
MaxCalls == 2

(* the windows (extension-host processes) of the host application *)
Windows == {"w1", "w2"}

(***************************************************************************)
(* Program constants.                                                      *)
(***************************************************************************)
STALE_LOCK_THRESHOLD_SEC == 120
DAY_MS == 24 * 60 * 60 * 1000

(* SQL NULL / JavaScript null and undefined: the empty tuple; a present    *)
(* value x is <<x>>.                                                       *)
Null == << >>
Some(x) == << x >>

(***************************************************************************)
(* usage_events: inputs.  An ApiUsageEvent as toApiUsageEvent returns it.  *)
(* The natural key is (timestamp, model, owningUser).  The payload columns *)
(* of the two upstream versions of an event differ in every column.        *)
(***************************************************************************)
Versions == {1, 2}
Notes == {"", "memo"}

NaturalKeys == {<<1, "auto", "u1">>, <<1, "gpt", "u1">>}

ApiUsageEvent(k, v) ==
    [timestamp |-> k[1], model |-> k[2], owningUser |-> k[3],
     kind |-> IF v = 1 THEN "included" ELSE "usage-based",
     maxMode |-> IF v = 1 THEN Null ELSE Some(TRUE),
     requestsCosts |-> IF v = 1 THEN Null ELSE Some(2),
     usageBasedCosts |-> v - 1,
     isTokenBasedCall |-> (v = 2),
     tokenUsage |-> [inputTokens |-> 10 * v, outputTokens |-> 20 * v,
                     cacheWriteTokens |-> 30 * v, cacheReadTokens |-> 40 * v,
                     totalCents |-> 5 * v],
     owningTeam |-> IF v = 1 THEN "t1" ELSE "t2",
     cursorTokenFee |-> v,
     isChargeable |-> (v = 2),
     isHeadless |-> (v = 1)]

ApiEvents == {ApiUsageEvent(k, v) : k \in NaturalKeys, v \in Versions}

RECURSIVE SeqsUpTo(_, _)
SeqsUpTo(S, n) ==
    IF n = 0 THEN {<< >>}
    ELSE LET shorter == SeqsUpTo(S, n - 1)
         IN  shorter \cup {Append(s, x) : s \in {q \in shorter : Len(q) = n - 1}, x \in S}

Batches == SeqsUpTo(ApiEvents, MaxBatch)

KeyOf(r) == <<r.timestamp, r.model, r.owning_user>>
EventKey(e) == <<e.timestamp, e.model, e.owningUser>>

(* event.maxMode != null ? (event.maxMode ? 1 : 0) : null *)
BoolToIntOrNull(b) == IF b = Null THEN Null ELSE Some(IF b[1] THEN 1 ELSE 0)
(* flag ? 1 : 0 *)
BoolToInt(b) == IF b THEN 1 ELSE 0

(***************************************************************************)
(* The row INSERT OR IGNORE writes for an event: note is left to its       *)
(* column default ''.                                                      *)
(***************************************************************************)
InsertedRow(e, fetchedAt) ==
    [timestamp |-> e.timestamp, model |-> e.model, kind |-> e.kind,
     max_mode |-> BoolToIntOrNull(e.maxMode),
     requests_costs |-> e.requestsCosts,
     usage_based_costs |-> e.usageBasedCosts,
     is_token_based_call |-> BoolToInt(e.isTokenBasedCall),
     input_tokens |-> e.tokenUsage.inputTokens,
     output_tokens |-> e.tokenUsage.outputTokens,
     cache_write_tokens |-> e.tokenUsage.cacheWriteTokens,
     cache_read_tokens |-> e.tokenUsage.cacheReadTokens,
     total_cents |-> e.tokenUsage.totalCents,
     owning_user |-> e.owningUser, owning_team |-> e.owningTeam,
     cursor_token_fee |-> e.cursorTokenFee,
     is_chargeable |-> BoolToInt(e.isChargeable),
     is_headless |-> BoolToInt(e.isHeadless),
     raw_json |-> e, fetched_at |-> fetchedAt, note |-> ""]

(* INSERT OR IGNORE under UNIQUE(timestamp, model, owning_user) *)
InsertOrIgnoreAlways(rows, e, fetchedAt) == rows \cup {InsertedRow(e, fetchedAt)}

InsertOrIgnore(rows, e, fetchedAt) ==
    IF \E r \in rows : KeyOf(r) = EventKey(e)
    THEN rows
    ELSE rows \cup {InsertedRow(e, fetchedAt)}

(* UPDATE usage_events SET ... WHERE timestamp = ? AND model = ? AND owning_user = ? *)
UpdatedRowClearsNote(r, e, fetchedAt) ==
    [InsertedRow(e, fetchedAt) EXCEPT !.owning_team = r.owning_team]

UpdatedRow(r, e, fetchedAt) ==
    [r EXCEPT !.kind = e.kind,
              !.max_mode = BoolToIntOrNull(e.maxMode),
              !.requests_costs = e.requestsCosts,
              !.usage_based_costs = e.usageBasedCosts,
              !.is_token_based_call = BoolToInt(e.isTokenBasedCall),
              !.input_tokens = e.tokenUsage.inputTokens,
              !.output_tokens = e.tokenUsage.outputTokens,
              !.cache_write_tokens = e.tokenUsage.cacheWriteTokens,
              !.cache_read_tokens = e.tokenUsage.cacheReadTokens,
              !.total_cents = e.tokenUsage.totalCents,
              !.cursor_token_fee = e.cursorTokenFee,
              !.is_chargeable = BoolToInt(e.isChargeable),
              !.is_headless = BoolToInt(e.isHeadless),
              !.raw_json = e,
              !.fetched_at = fetchedAt]

UpdateEvent(rows, e, fetchedAt) ==
    {IF KeyOf(r) = EventKey(e) THEN UpdatedRow(r, e, fetchedAt) ELSE r : r \in rows}

(* the for-loop of saveEventsToDb over events[i..] inside the transaction *)
RECURSIVE UpsertLoop(_, _, _, _)
UpsertLoop(rows, events, i, fetchedAt) ==
    IF i > Len(events) THEN rows
    ELSE UpsertLoop(UpdateEvent(InsertOrIgnore(rows, events[i], fetchedAt),
                                events[i], fetchedAt),
                    events, i + 1, fetchedAt)

(* ROLLBACK: the transaction's changes are discarded.  (ROLLBACK itself   *)
(* fails only when SQLite has already rolled the transaction back.)       *)
RollbackKeepsPartial(before, partial) == partial

Rollback(before, partial) == before

(***************************************************************************)
(* The database: the five tables SCHEMA_* create.                          *)
(***************************************************************************)
EmptyDb == [usage_events |-> {}, usage_summary |-> << >>, auth_me |-> {},
            team_members |-> {}, teams |-> {}]

VARIABLES
    disk,        \* usage.db: the exported database image on disk
    notif,       \* db-updated.json: Null when absent, else <<updatedAt>>
    mem,         \* mem[w]: DbService.db of window w (the in-memory database)
    open,        \* open[w]: DbService.db of window w is not null
    now,         \* Date.now()
    written,     \* the files the last step wrote, in order
    thrownAt,    \* the last step threw at the db.run of events[thrownAt]; 0: no throw
    wpc,         \* store steps: where window w is between reload and persist
    phase,       \* twice-applied scenario: "seed", "once", "twice"
    batch,       \* twice-applied scenario: the batch applied twice
    snap,        \* twice-applied scenario: usage.db after the first application
    before2,     \* twice-applied scenario: usage.db right before the second
    lockFile,    \* fetch.lock: absent, unparsable, or the parsed JSON content
    token,       \* SecretStorage: Null when no token is stored, else <<token>>
    dbReady,     \* dbReady[w]: Phase A of activate succeeded in window w
    inFlight,    \* inFlight[w]: the single-flight guard of window w
    forceInitialSync,   \* forceInitialSync[w]: set by a token change
    backgroundRunning,  \* backgroundRunning[w]: local of the running refreshData
    pc,          \* pc[w]: the await at which refreshData of window w is suspended
    branch,      \* branch[w]: the branch the last branch selection took
    results,     \* results[w]: the settled Phase 1 results while fetchTeam is awaited
    holding,     \* holding[w]: w acquired the lock and has not called releaseLock since
    acquiredAt,  \* acquiredAt[w]: Date.now() of the last successful acquireLock of w
    last,        \* what the last step did with the guard and the lock
    tokenHandler,  \* tokenHandler[w]: "none"; "fire": token stored, event not fired; "timer": retryRefresh waits
    byHandler,   \* byHandler[w]: the running sync of w was invoked by retryRefresh
    initialSince,  \* an InitialSync fetched its first page with the stored token since it last changed
    usedToken,   \* usedToken[w]: the token the running sync of w read, Null when none
    seen,        \* the settled results the last synchronous step of a sync saw
    fpc,         \* a paged fetch: "idle", "request", "sleep", "done"
    fkind,       \* a paged fetch: "remaining" or "delta"
    ftoken,      \* a paged fetch: the token argument
    fpage,       \* a paged fetch: the loop variable page
    fattempt,    \* withRetry: the loop variable attempt
    fwaited,     \* withRetry: the delays slept so far in this call
    fsettled,    \* withRetry: how the latest attempt settled: "none", "ok", "failed"
    flastErr,    \* withRetry: lastError, the error of the latest failed attempt
    frequested,  \* a paged fetch: the page of the latest request, 0 when none
    fshort,      \* a paged fetch: a page shorter than PAGE_SIZE was received
    fout,        \* a paged fetch: how the call ended
    dbVersion,   \* how many times usage.db has been written
    announced,   \* the dbVersion whose write db-updated.json announces
    presult,     \* presult[w]: the latest persist() call of window w
    observed,    \* observed[w]: the announcement the watcher of w handled last
    reloaded,    \* reloaded[w]: the dbVersion the watcher of w reloaded then
    watched,     \* the window whose watcher handler was the last step, or "none"
    shown,       \* shown[w]: the store image the UI of w was last refreshed from
    daysArg,     \* the argument of the latest deleteOlderThan call, -1: none
    returned,    \* the value that call returned
    beforeDelete, \* the in-memory store that call started from
    closed,      \* closed[w]: dbService.close() has run in window w
    storeOp,     \* the latest call of a store operation and how it ended
    served,      \* what sendDataToWebview last posted to the webview
    emitted,     \* emitted[t]: the log lines and messages of the run whose token is t
    sentCookie,  \* sentCookie[t]: the Cookie header of that run's latest request
    overwrote,   \* the fetch.lock content the latest successful acquireLock found
    dpc,         \* position of the sync whose page requests are followed
    dmark,       \* latest as that sync read it at branch selection
    dstarted,    \* Date.now() when its first page request was built
    dwindow,     \* the startDate and endDate its code holds
    dpage,       \* the page of its latest request
    dsent,       \* the date windows its requests have carried
    replaced,    \* the latest snapshot save: its table, input and outcome
    memoCall,    \* the latest handleUpdateMemo: its message and usage.db before it
    exported,    \* what the exportCsv command last selected, and from which image
    barShown     \* the event the status bar last showed, and from which image

storeVars == <<disk, notif, mem, open, now, written, thrownAt>>
twiceVars == <<phase, batch, snap, before2>>
orchVars == <<lockFile, token, dbReady, inFlight, forceInitialSync,
              backgroundRunning, pc, branch, results, holding,
              acquiredAt, last>>
tokenVars == <<tokenHandler, byHandler, initialSince, usedToken>>
fetchVars == <<fpc, fkind, ftoken, fpage, fattempt, fwaited, fsettled,
               flastErr, frequested, fshort, fout>>
persistVars == <<dbVersion, announced, presult, observed, reloaded, watched,
                 shown>>
retentionVars == <<daysArg, returned, beforeDelete>>
closeVars == <<closed, storeOp>>
viewVars == <<served>>
leakVars == <<emitted, sentCookie>>
staleVars == <<overwrote>>
dateVars == <<dpc, dmark, dstarted, dwindow, dpage, dsent>>
replaceVars == <<replaced>>
memoVars == <<memoCall>>
readVars == <<exported, barShown>>
lateVars == <<replaceVars, memoVars, readVars>>
auxVars == <<retentionVars, closeVars, viewVars, leakVars, staleVars,
            dateVars, lateVars>>
restVars == <<tokenVars, seen, fetchVars, persistVars, auxVars>>
vars == <<storeVars, wpc, twiceVars, orchVars, restVars>>

(* fetch.lock as acquireLock reads it *)
NoLock == [kind |-> "absent", startedAt |-> Null, pid |-> Null]
CorruptLock == [kind |-> "corrupt", startedAt |-> Null, pid |-> Null]
LockContent(startedAt, pid) ==
    [kind |-> "json", startedAt |-> startedAt, pid |-> pid]

NoResults == [events |-> Null, summary |-> Null, me |-> Null, teams |-> Null]

(* the module-scope and closure variables of a window that is not running *)
(* a paged fetch that has not ended *)
NoOutcome == [kind |-> "none", err |-> Null]

(* no persist() call yet *)
NoPersist == [result |-> "none", wrote |-> << >>, version |-> 0]

(* nothing observed: the last step was not the end of a stretch of a sync *)
NoSeen == [step |-> "none", r |-> NoResults, d |-> "skipped", threw |-> FALSE,
           branch |-> "none", members |-> FALSE, caught |-> FALSE]

(* no paged fetch has been called *)
FetchOff ==
    /\ fpc = "idle"
    /\ fkind = "remaining"
    /\ ftoken = ""
    /\ fpage = 0
    /\ fattempt = 0
    /\ fwaited = << >>
    /\ fsettled = "none"
    /\ flastErr = Null
    /\ frequested = 0
    /\ fshort = FALSE
    /\ fout = NoOutcome

(* persist() has not been called *)
PersistOff ==
    /\ dbVersion = 0
    /\ announced = 0
    /\ presult = [w \in Windows |-> NoPersist]
    /\ observed = [w \in Windows |-> 0]
    /\ reloaded = [w \in Windows |-> 0]
    /\ watched = "none"
    /\ shown = [w \in Windows |-> EmptyDb]

RetentionOff ==
    /\ daysArg = -1
    /\ returned = 0
    /\ beforeDelete = EmptyDb

NoStoreOp == [name |-> "none", w |-> "none", afterClose |-> FALSE,
              threw |-> FALSE, changed |-> FALSE]

CloseOff ==
    /\ closed = [w \in Windows |-> FALSE]
    /\ storeOp = NoStoreOp

NothingServed == [sent |-> FALSE, events |-> {}]

ViewOff ==
    /\ served = NothingServed

LeakOff ==
    /\ emitted = [t \in {"tokA", "tokB"} |-> << >>]
    /\ sentCookie = [t \in {"tokA", "tokB"} |-> ""]

StaleOff ==
    /\ overwrote = NoLock

NoWindow == [startDate |-> Null, endDate |-> Null]

DatesOff ==
    /\ dpc = "idle"
    /\ dmark = Null
    /\ dstarted = 0
    /\ dwindow = NoWindow
    /\ dpage = 0
    /\ dsent = {}

NoReplace == [table |-> "none", response |-> Null, threw |-> FALSE,
              before |-> Null]

ReplaceOff ==
    /\ replaced = NoReplace

NoMemoCall == [called |-> FALSE, key |-> Null, note |-> "", before |-> Null]

MemoOff ==
    /\ memoCall = NoMemoCall

NothingExported == [done |-> FALSE, events |-> {}, from |-> Null]
NothingShown == [done |-> FALSE, event |-> Null, from |-> Null]

ReadOff ==
    /\ exported = NothingExported
    /\ barShown = NothingShown

LateOff ==
    /\ ReplaceOff
    /\ MemoOff
    /\ ReadOff

AuxOff ==
    /\ RetentionOff
    /\ CloseOff
    /\ ViewOff
    /\ LeakOff
    /\ StaleOff
    /\ DatesOff
    /\ LateOff

WindowsOff ==
    /\ token = Null
    /\ dbReady = [w \in Windows |-> FALSE]
    /\ inFlight = [w \in Windows |-> FALSE]
    /\ forceInitialSync = [w \in Windows |-> FALSE]
    /\ backgroundRunning = [w \in Windows |-> FALSE]
    /\ pc = [w \in Windows |-> "off"]
    /\ branch = [w \in Windows |-> "none"]
    /\ results = [w \in Windows |-> NoResults]
    /\ holding = [w \in Windows |-> FALSE]
    /\ acquiredAt = [w \in Windows |-> 0]
    /\ last = "init"
    /\ tokenHandler = [w \in Windows |-> "none"]
    /\ byHandler = [w \in Windows |-> FALSE]
    /\ initialSince = FALSE
    /\ usedToken = [w \in Windows |-> Null]
    /\ seen = NoSeen
    /\ FetchOff
    /\ PersistOff
    /\ AuxOff

(* DbService.reload(): the in-memory database becomes the file's image *)
reloadKeepsMemory(w) == mem

reload(w) == [mem EXCEPT ![w] = disk]

(* DbService.persist(): export to usage.db, then touch db-updated.json *)
persist(w, db) ==
    /\ disk' = db
    /\ notif' = Some(now)
    /\ written' = <<"usage.db", "db-updated.json">>

(***************************************************************************)
(* ApiService.saveEventsToDb(events), lines 1713-1786: the transaction on  *)
(* the reloaded database.  failAt = 0: every db.run succeeds and COMMIT is *)
(* reached; failAt = i: a db.run of events[i] throws, the catch block      *)
(* rolls back and re-throws.                                               *)
(***************************************************************************)
saveEventsTxn(before, events, failAt, fetchedAt) ==
    IF failAt = 0
    THEN [db |-> [before EXCEPT !.usage_events = UpsertLoop(@, events, 1, fetchedAt)],
          threw |-> FALSE, at |-> 0]
    ELSE LET partial == [before EXCEPT !.usage_events =
                            UpsertLoop(@, SubSeq(events, 1, failAt - 1), 1, fetchedAt)]
         IN  [db |-> Rollback(before, partial), threw |-> TRUE, at |-> failAt]

(* the whole of saveEventsToDb, as one window executes it without yielding *)
saveEventsToDb(w, events, failAt) ==
    IF Len(events) = 0
    THEN /\ thrownAt' = 0
         /\ written' = << >>
         /\ UNCHANGED <<disk, notif, mem>>
    ELSE LET txn == saveEventsTxn(reload(w)[w], events, failAt, now)
         IN  /\ mem' = [mem EXCEPT ![w] = txn.db]
             /\ thrownAt' = txn.at
             /\ IF txn.threw
                THEN written' = << >> /\ UNCHANGED <<disk, notif>>
                ELSE persist(w, txn.db)

(***************************************************************************)
(* WebviewService.handleUpdateMemo: reload, UPDATE note of the row with    *)
(* the given key, persist.                                                 *)
(***************************************************************************)
SetNoteEverywhere(rows, key, note) ==
    {[r EXCEPT !.note = note] : r \in rows}

SetNote(rows, key, note) ==
    {IF KeyOf(r) = key THEN [r EXCEPT !.note = note] ELSE r : r \in rows}

handleUpdateMemo(w, key, note) ==
    LET after == [reload(w)[w] EXCEPT !.usage_events = SetNote(@, key, note)]
    IN  /\ mem' = [mem EXCEPT ![w] = after]
        /\ persist(w, after)
        /\ thrownAt' = 0

(***************************************************************************)
(* Initial state: the first window has run DbService.initialize(), which   *)
(* created usage.db with the empty schema; every window has loaded it.     *)
(***************************************************************************)
StoreInit ==
    /\ disk = EmptyDb
    /\ notif = Some(0)
    /\ mem = [w \in Windows |-> EmptyDb]
    /\ open = [w \in Windows |-> TRUE]
    /\ now = 0
    /\ written = << >>
    /\ thrownAt = 0

(***************************************************************************)
(* DbService.deleteOlderThan(days): no reload; deletes from the in-memory  *)
(* database the events and summaries with fetched_at < now - days, then    *)
(* persists.                                                               *)
(***************************************************************************)
DeleteOlderInclusive(db, days, at) ==
    LET threshold == at - days * DAY_MS
        Newer(row) == ~(row.fetched_at <= threshold)
    IN  [db EXCEPT !.usage_events = {r \in @ : Newer(r)},
                   !.usage_summary = SelectSeq(@, Newer)]

DeleteOlder(db, days, at) ==
    LET threshold == at - days * DAY_MS
        Newer(row) == ~(row.fetched_at < threshold)
    IN  [db EXCEPT !.usage_events = {r \in @ : Newer(r)},
                   !.usage_summary = SelectSeq(@, Newer)]

(* ApiService.saveSummaryToDb: the INSERT on the reloaded database *)
ApiUsageSummary == [planUsed |-> 10, planLimit |-> 500]

SummaryRow(summary, fetchedAt) ==
    [plan_used |-> summary.planUsed, plan_limit |-> summary.planLimit,
     raw_json |-> summary, fetched_at |-> fetchedAt]

InsertSummary(db, summary, fetchedAt) ==
    [db EXCEPT !.usage_summary = Append(@, SummaryRow(summary, fetchedAt))]

(* db.run('DELETE FROM team_members') *)
DeleteTeamMembers(db) == [db EXCEPT !.team_members = {}]

(***************************************************************************)
(* The store at the granularity of file operations.  A window executes a   *)
(* write handler without yielding, but its readFileSync (reload) and its   *)
(* writeFileSync (persist) are separate file operations, and the other     *)
(* windows' file operations may fall between them.                         *)
(*   wpc[w] = "off"          window closed                                 *)
(*            "activated"    initialize() has loaded usage.db              *)
(*            "idle"         between handlers                              *)
(*            "syncPersist"  a sync write has reloaded and mutated         *)
(*            "memoPersist"  handleUpdateMemo has reloaded and mutated     *)
(*            "replacePersist"  a snapshot save has reloaded and replaced  *)
(***************************************************************************)
RetentionDays == {0, 1}

(* the events the server returns in this scenario: one version of each    *)
(* event                                                                  *)
FileEvents == {e \in ApiEvents : e.kind = "included"}
FileBatches == SeqsUpTo(FileEvents, MaxBatch)

(* usage.db as an earlier session left it two days ago, after one sync    *)
OldEvent == CHOOSE e \in FileEvents : e.model = "gpt"
OldDb == saveEventsTxn(EmptyDb, <<OldEvent>>, 0, 0).db

FileInit ==
    /\ disk = OldDb
    /\ notif = Some(0)
    /\ mem = [w \in Windows |-> EmptyDb]
    /\ open = [w \in Windows |-> FALSE]
    /\ now = 2 * DAY_MS
    /\ written = << >>
    /\ thrownAt = 0
    /\ wpc = [w \in Windows |-> "off"]
    /\ phase = "seed"
    /\ batch = << >>
    /\ snap = EmptyDb
    /\ before2 = EmptyDb
    /\ lockFile = NoLock
    /\ WindowsOff

NoFileWrite ==
    /\ written' = << >>
    /\ UNCHANGED <<disk, notif>>

(* activate, line 26: dbService.initialize() reads usage.db *)
FileInitialize(w) ==
    /\ wpc[w] = "off"
    /\ mem' = reload(w)
    /\ open' = [open EXCEPT ![w] = TRUE]
    /\ wpc' = [wpc EXCEPT ![w] = "activated"]
    /\ thrownAt' = 0
    /\ NoFileWrite
    /\ UNCHANGED <<now, twiceVars, orchVars, restVars>>

(* activate, lines 31-46: automatic deletion when autoDeleteDays > 0 *)
FileAutoDelete(w, days) ==
    /\ wpc[w] = "activated"
    /\ IF days > 0
       THEN LET after == DeleteOlder(mem[w], days, now)
            IN  mem' = [mem EXCEPT ![w] = after] /\ persist(w, after)
       ELSE UNCHANGED mem /\ NoFileWrite
    /\ wpc' = [wpc EXCEPT ![w] = "idle"]
    /\ thrownAt' = 0
    /\ UNCHANGED <<now, open, twiceVars, orchVars, restVars>>

(* saveEventsToDb up to the end of the transaction *)
FileBeginEvents(w, events, failAt) ==
    /\ wpc[w] = "idle"
    /\ IF Len(events) = 0
       THEN /\ thrownAt' = 0
            /\ UNCHANGED <<mem, wpc>>
       ELSE LET txn == saveEventsTxn(reload(w)[w], events, failAt, now)
            IN  /\ mem' = [mem EXCEPT ![w] = txn.db]
                /\ thrownAt' = txn.at
                /\ wpc' = [wpc EXCEPT ![w] = IF txn.threw THEN "idle" ELSE "syncPersist"]
    /\ NoFileWrite
    /\ UNCHANGED <<now, open, twiceVars, orchVars, restVars>>

(* saveSummaryToDb up to the INSERT *)
FileBeginSummary(w) ==
    /\ wpc[w] = "idle"
    /\ Len(disk.usage_summary) < MaxSummaries
    /\ mem' = [mem EXCEPT ![w] = InsertSummary(reload(w)[w], ApiUsageSummary, now)]
    /\ wpc' = [wpc EXCEPT ![w] = "syncPersist"]
    /\ thrownAt' = 0
    /\ NoFileWrite
    /\ UNCHANGED <<now, open, twiceVars, orchVars, restVars>>

(* refreshData, lines 288-290 and 534-536: membership purge up to the DELETE *)
FileBeginPurge(w) ==
    /\ wpc[w] = "idle"
    /\ mem' = [mem EXCEPT ![w] = DeleteTeamMembers(reload(w)[w])]
    /\ wpc' = [wpc EXCEPT ![w] = "syncPersist"]
    /\ thrownAt' = 0
    /\ NoFileWrite
    /\ UNCHANGED <<now, open, twiceVars, orchVars, restVars>>

(* handleUpdateMemo up to the UPDATE *)
FileBeginMemo(w, key, note) ==
    /\ wpc[w] = "idle"
    /\ mem' = [mem EXCEPT ![w] =
                  [reload(w)[w] EXCEPT !.usage_events = SetNote(@, key, note)]]
    /\ wpc' = [wpc EXCEPT ![w] = "memoPersist"]
    /\ thrownAt' = 0
    /\ NoFileWrite
    /\ UNCHANGED <<now, open, twiceVars, orchVars, restVars>>

(* the dbService.persist() that ends the handler *)
FilePersist(w) ==
    /\ wpc[w] \in {"syncPersist", "memoPersist", "replacePersist"}
    /\ persist(w, mem[w])
    /\ wpc' = [wpc EXCEPT ![w] = "idle"]
    /\ thrownAt' = 0
    /\ UNCHANGED <<mem, now, open, twiceVars, orchVars, restVars>>

(* activate, lines 60-61: the watcher's dbService.reload() *)
FileWatcherReload(w) ==
    /\ wpc[w] = "idle"
    /\ mem[w] # disk
    /\ mem' = reload(w)
    /\ thrownAt' = 0
    /\ NoFileWrite
    /\ UNCHANGED <<now, open, wpc, twiceVars, orchVars, restVars>>

(* deactivate, line 951: dbService.close(); the window is gone *)
FileClose(w) ==
    /\ wpc[w] = "idle"
    /\ open' = [open EXCEPT ![w] = FALSE]
    /\ wpc' = [wpc EXCEPT ![w] = "off"]
    /\ thrownAt' = 0
    /\ NoFileWrite
    /\ UNCHANGED <<mem, now, twiceVars, orchVars, restVars>>

FileNext ==
    \/ \E w \in Windows : FileInitialize(w)
    \/ \E w \in Windows, days \in RetentionDays : FileAutoDelete(w, days)
    \/ \E w \in Windows, events \in FileBatches, failAt \in 0..MaxBatch :
          failAt <= Len(events) /\ FileBeginEvents(w, events, failAt)
    \/ \E w \in Windows : FileBeginSummary(w)
    \/ \E w \in Windows : FileBeginPurge(w)
    \/ \E w \in Windows, key \in NaturalKeys, note \in Notes : FileBeginMemo(w, key, note)
    \/ \E w \in Windows : FilePersist(w)
    \/ \E w \in Windows : FileWatcherReload(w)
    \/ \E w \in Windows : FileClose(w)

SpecFiles == FileInit /\ [][FileNext]_vars

UniqueKeys(db) ==
    \A r1, r2 \in db.usage_events : KeyOf(r1) = KeyOf(r2) => r1 = r2

(* C2: in usage.db and in every window's in-memory database no two       *)
(* usage_events rows share (timestamp, model, owning_user).               *)
C2_NaturalKeyUnique ==
    /\ UniqueKeys(disk)
    /\ \A w \in Windows : UniqueKeys(mem[w])

(* an event whose key was already stored two days ago has been upserted   *)
(* again and persisted next to a row with another key                     *)
C2_Witness ==
    /\ Cardinality(disk.usage_events) = 2
    /\ \E r \in disk.usage_events :
          KeyOf(r) = EventKey(OldEvent) /\ r.fetched_at = now /\ r.note = "memo"

(* C3: the persist that ends a sync write never changes or drops a note  *)
(* that the note-update path has put into usage.db.                       *)
C3_SyncKeepsNotes ==
    [][\A w \in Windows :
         (wpc[w] = "syncPersist" /\ wpc'[w] = "idle") =>
             \A r \in disk.usage_events :
                 r.note # "" =>
                     \E r2 \in disk'.usage_events :
                         KeyOf(r2) = KeyOf(r) /\ r2.note = r.note]_vars

(* C5: when saveEventsToDb throws, the window's in-memory database is the *)
(* image it reloaded, without any insert or update of the batch; neither  *)
(* usage.db nor db-updated.json is written; the handler ends with the     *)
(* error (no persist follows).                                            *)
C5_FailedBatchRolledBack ==
    [][thrownAt' > 0 =>
         /\ \E w \in Windows : wpc[w] = "idle" /\ mem' = [mem EXCEPT ![w] = disk]
         /\ disk' = disk
         /\ notif' = notif
         /\ written' = << >>
         /\ wpc' = wpc]_vars

(* a batch failed at its second event, after its first event had been     *)
(* inserted or updated inside the transaction                             *)
C5_Witness ==
    /\ thrownAt = 2
    /\ \A r \in disk.usage_events : r.fetched_at < now
    /\ \E w \in Windows : mem[w] = disk /\ wpc[w] = "idle"

(***************************************************************************)
(* Scenario "apply the same batch twice" in one window: any sequence of    *)
(* upserts and note updates builds a store (phase "seed"); one batch is    *)
(* applied ("once"); notes are edited and time passes; the same batch is   *)
(* applied again ("twice").                                                *)
(***************************************************************************)
TwiceWindow == "w1"

TwiceInit ==
    /\ StoreInit
    /\ wpc = [w \in Windows |-> "idle"]
    /\ phase = "seed"
    /\ batch = << >>
    /\ snap = EmptyDb
    /\ before2 = EmptyDb
    /\ lockFile = NoLock
    /\ WindowsOff

TwiceSeed(e) ==
    /\ phase = "seed"
    /\ saveEventsToDb(TwiceWindow, <<e>>, 0)
    /\ UNCHANGED <<now, open, wpc, twiceVars, orchVars, restVars>>

TwiceMemo(key, note) ==
    /\ phase \in {"seed", "once"}
    /\ handleUpdateMemo(TwiceWindow, key, note)
    /\ UNCHANGED <<now, open, wpc, twiceVars, orchVars, restVars>>

TwiceTick ==
    /\ phase \in {"seed", "once"}
    /\ now < MaxDays * DAY_MS
    /\ now' = now + DAY_MS
    /\ written' = << >>
    /\ thrownAt' = 0
    /\ UNCHANGED <<disk, notif, mem, open, wpc, twiceVars, orchVars, restVars>>

TwiceFirst(events) ==
    /\ phase = "seed"
    /\ saveEventsToDb(TwiceWindow, events, 0)
    /\ phase' = "once"
    /\ batch' = events
    /\ snap' = disk'
    /\ UNCHANGED <<now, open, wpc, before2, orchVars, restVars>>

TwiceSecond ==
    /\ phase = "once"
    /\ saveEventsToDb(TwiceWindow, batch, 0)
    /\ phase' = "twice"
    /\ before2' = disk
    /\ UNCHANGED <<now, open, wpc, batch, snap, orchVars, restVars>>

TwiceNext ==
    \/ \E e \in ApiEvents : TwiceSeed(e)
    \/ \E key \in NaturalKeys, note \in Notes : TwiceMemo(key, note)
    \/ TwiceTick
    \/ \E events \in Batches : TwiceFirst(events)
    \/ TwiceSecond

SpecTwice == TwiceInit /\ [][TwiceNext]_vars

BatchKeys(events) == {EventKey(events[i]) : i \in 1..Len(events)}

SameExceptNote(db1, db2) ==
    /\ {[r EXCEPT !.note = ""] : r \in db1.usage_events}
         = {[r EXCEPT !.note = ""] : r \in db2.usage_events}
    /\ [db1 EXCEPT !.usage_events = {}] = [db2 EXCEPT !.usage_events = {}]

RECURSIVE LastEventFor(_, _, _)
LastEventFor(events, key, i) ==
    IF EventKey(events[i]) = key THEN events[i] ELSE LastEventFor(events, key, i - 1)

(* C4: after an upsert of a batch whose keys were all stored already,     *)
(* every column of those rows other than note carries the value of the    *)
(* incoming event (the last one of the batch with that key).              *)
C4_UpsertRefreshesAllColumns ==
    phase = "twice" =>
        \A r \in disk.usage_events :
            KeyOf(r) \in BatchKeys(batch) =>
                [r EXCEPT !.note = ""]
                    = InsertedRow(LastEventFor(batch, KeyOf(r), Len(batch)), now)

(* C1, as stated: after the second application of the same batch the     *)
(* store is what it was after the first one (up to the notes edited in    *)
(* between), and those notes are unchanged.                               *)
C1_TwiceEqualsOnce ==
    phase = "twice" => (disk = before2 /\ SameExceptNote(before2, snap))

(* C1, amended: after the second application of the same batch the store  *)
(* is what it was after the first one, with the notes edited in between   *)
(* unchanged, except that fetched_at of every row whose natural key       *)
(* occurs in the batch is the time of the second application.             *)
C1_TwiceEqualsOnceUpToFetchedAt ==
    phase = "twice" =>
        /\ disk = [before2 EXCEPT !.usage_events =
                      {IF KeyOf(r) \in BatchKeys(batch)
                       THEN [r EXCEPT !.fetched_at = now] ELSE r : r \in @}]
        /\ SameExceptNote(before2, snap)
        /\ \A r \in before2.usage_events :
              \E r2 \in disk.usage_events : KeyOf(r2) = KeyOf(r) /\ r2.note = r.note

(* a batch was applied twice, a note of one of its rows was set in        *)
(* between and the clock advanced between the two applications            *)
C1_Witness ==
    /\ phase = "twice"
    /\ \E r \in before2.usage_events :
          /\ KeyOf(r) \in BatchKeys(batch)
          /\ r.note = "memo"
          /\ r \notin snap.usage_events
          /\ r.fetched_at < now
    /\ disk # before2

(***************************************************************************)
(* The windows: every window is an extension host running activate(),     *)
(* the refreshData command and deactivate() against the shared usage.db,  *)
(* fetch.lock and SecretStorage.                                           *)
(***************************************************************************)
MaxClock == 120000
PAGE_SIZE == 100
UnlinkErrors == {"none", "EPERM"}
Tokens == {"tokA"}

(* the instants at which Date.now() is read: 0, 120000, 120001, 240001, ... *)
NextInstant(t) == IF t % 120001 = 0 THEN t + 120000 ELSE t + 1

(***************************************************************************)
(* FetchLockService.acquireLock(), lines 65-99.  The existing lock makes  *)
(* the call fail when the file exists, JSON.parse succeeds, startedAt is  *)
(* a date and elapsedSec = (Date.now() - startedAt) / 1000 is at most the *)
(* threshold.                                                              *)
(***************************************************************************)
ExistingLockBlocksStrict(file, t) ==
    /\ file.kind = "json"
    /\ file.startedAt # Null
    /\ t - file.startedAt[1] < STALE_LOCK_THRESHOLD_SEC * 1000

ExistingLockBlocks(file, t) ==
    /\ file.kind = "json"
    /\ file.startedAt # Null
    /\ t - file.startedAt[1] <= STALE_LOCK_THRESHOLD_SEC * 1000

acquireLockNeverOverwrites(file, t, w) ==
    IF file.kind = "json" /\ file.startedAt # Null
    THEN [ok |-> FALSE, file |-> file]
    ELSE [ok |-> TRUE, file |-> LockContent(Some(t), Some(w))]

acquireLock(file, t, w) ==
    IF ExistingLockBlocks(file, t)
    THEN [ok |-> FALSE, file |-> file]
    ELSE [ok |-> TRUE, file |-> LockContent(Some(t), Some(w))]

(***************************************************************************)
(* FetchLockService.releaseLock(), lines 105-115.  err is the outcome of  *)
(* fs.unlinkSync on an existing file; on a missing file it fails with     *)
(* ENOENT, which is ignored.                                               *)
(***************************************************************************)
releaseLockRethrowsAll(file, err) ==
    IF file.kind = "absent" \/ err # "none"
    THEN [file |-> file, threw |-> TRUE]
    ELSE [file |-> NoLock, threw |-> FALSE]

releaseLock(file, err) ==
    IF file.kind = "absent"
    THEN [file |-> file, threw |-> FALSE]
    ELSE IF err # "none"
         THEN [file |-> file, threw |-> TRUE]
         ELSE [file |-> NoLock, threw |-> FALSE]

(***************************************************************************)
(* ApiService.getLatestEventTimestamp(): SELECT MAX(timestamp) on the      *)
(* in-memory database, without reload; null when the table is empty.       *)
(***************************************************************************)
getLatestEventTimestamp(db) ==
    IF db.usage_events = {}
    THEN Null
    ELSE Some(CHOOSE t \in {r.timestamp : r \in db.usage_events} :
                 \A r \in db.usage_events : r.timestamp <= t)

(* the branch selection of refreshData, lines 243-247 *)
IsInitialSyncIgnoresForce(force, db) == getLatestEventTimestamp(db) = Null

IsInitialSync(force, db) ==
    LET latest == IF force THEN Null ELSE getLatestEventTimestamp(db)
    IN  latest = Null

(***************************************************************************)
(* Upstream responses.  A page is the list usageEventsDisplay of one       *)
(* response: count is its length, events the events of it the model keeps  *)
(* apart (a page of PAGE_SIZE events is stood for by its first event).     *)
(***************************************************************************)
SyncEvent == ApiUsageEvent(<<1, "auto", "u1">>, 1)
Pages == {[events |-> << >>, count |-> 0],
          [events |-> <<SyncEvent>>, count |-> 1],
          [events |-> <<SyncEvent>>, count |-> PAGE_SIZE]}
ApiAuthMe == [id |-> 1, email |-> "u1@example.com", name |-> "u1"]
ApiTeam == [id |-> 7, name |-> "team", role |-> "TEAM_ROLE_OWNER"]
ApiTeamsResponses == {<< >>, <<ApiTeam>>}
ApiTeamResponse ==
    [userId |-> 1,
     teamMembers |-> <<[id |-> 1, name |-> "u1", role |-> "TEAM_ROLE_OWNER",
                        email |-> "u1@example.com"]>>]

Settled(S) == {Null} \cup {Some(x) : x \in S}

(* the settled results of Promise.allSettled, lines 270-276 and 509-515 *)
Phase1Results ==
    [events : Settled(Pages), summary : Settled({ApiUsageSummary}),
     me : Settled({ApiAuthMe}), teams : Settled(ApiTeamsResponses)]

(* the results for which only the events and the teams requests answer, *)
(* the account being in no team                                         *)
Phase1EventsOnly ==
    {r \in Phase1Results : /\ r.summary = Null
                           /\ r.me = Null
                           /\ r.teams # Null => r.teams[1] = << >>}

(***************************************************************************)
(* The store as one window sees it during a synchronous stretch of code:  *)
(* the two files, the window's in-memory database, and whether a          *)
(* statement has thrown.                                                   *)
(***************************************************************************)
View(w) == [disk |-> disk, notif |-> notif, memw |-> mem[w],
            open |-> open[w], threw |-> FALSE]

(* reload, mutate, persist: the shape of every save but saveEventsToDb *)
Write(s, db, t) ==
    [s EXCEPT !.disk = db, !.memw = db, !.open = TRUE, !.notif = Some(t)]

(* the team_members purge of refreshData, lines 288-291 and 534-537 *)
PurgeSkipped(s, t) == s

PurgeTeamMembers(s, t) == Write(s, DeleteTeamMembers(s.disk), t)

SaveEvents(s, events, failAt, t) ==
    IF s.threw \/ Len(events) = 0
    THEN s
    ELSE LET txn == saveEventsTxn(s.disk, events, failAt, t)
         IN  IF txn.threw
             THEN [s EXCEPT !.memw = txn.db, !.open = TRUE, !.threw = TRUE]
             ELSE Write(s, txn.db, t)

SaveSummary(s, summary, t) ==
    IF s.threw THEN s ELSE Write(s, InsertSummary(s.disk, summary, t), t)

AuthMeRow(me, t) ==
    [id |-> me.id, email |-> me.email, name |-> me.name, raw_json |-> me,
     fetched_at |-> t]

(* ApiService.saveAuthMeToDb: DELETE FROM auth_me, INSERT *)
SaveAuthMe(s, me, t) ==
    IF s.threw THEN s
    ELSE Write(s, [s.disk EXCEPT !.auth_me = {AuthMeRow(me, t)}], t)

TeamMemberRow(team, m, teamId, t) ==
    [id |-> m.id, name |-> m.name, role |-> m.role, email |-> m.email,
     user_id |-> team.userId, team_id |-> teamId, raw_json |-> team,
     fetched_at |-> t]

(* ApiService.saveTeamToDb: DELETE FROM team_members, INSERT per member *)
SaveTeam(s, team, teamId, t) ==
    IF s.threw THEN s
    ELSE Write(s, [s.disk EXCEPT !.team_members =
                      {TeamMemberRow(team, team.teamMembers[i], teamId, t) :
                          i \in 1..Len(team.teamMembers)}], t)

TeamsRow(teams, tm, t) ==
    [id |-> tm.id, name |-> tm.name, role |-> tm.role, raw_json |-> teams,
     fetched_at |-> t]

(* ApiService.saveTeamsToDb: DELETE FROM teams, INSERT per team *)
SaveTeams(s, teams, t) ==
    IF s.threw THEN s
    ELSE Write(s, [s.disk EXCEPT !.teams =
                      {TeamsRow(teams, teams[i], t) : i \in 1..Len(teams)}], t)

(***************************************************************************)
(* Phase 2 of refreshData, lines 333-355 and 576-596: the saves of the     *)
(* fulfilled results, in order; a throwing save skips the rest.  d is the  *)
(* fetchTeam result: "skipped", Null (rejected) or <<response>>.           *)
(***************************************************************************)
Phase2NeedsEvents(s, r, d, failAt, t) ==
    LET s1 == IF r.events # Null
              THEN SaveEvents(s, r.events[1].events, failAt, t) ELSE s
        s2 == IF r.summary # Null /\ r.events # Null
              THEN SaveSummary(s1, r.summary[1], t) ELSE s1
        s3 == IF r.me # Null /\ r.events # Null
              THEN SaveAuthMe(s2, r.me[1], t) ELSE s2
        teamIdForSave == IF r.teams # Null /\ Len(r.teams[1]) > 0
                         THEN r.teams[1][1].id ELSE 0
        s4 == IF d # "skipped" /\ d # Null /\ r.events # Null
              THEN SaveTeam(s3, d[1], teamIdForSave, t) ELSE s3
    IN  IF r.teams # Null /\ r.events # Null
        THEN SaveTeams(s4, r.teams[1], t) ELSE s4

Phase2(s, r, d, failAt, t) ==
    LET s1 == IF r.events # Null
              THEN SaveEvents(s, r.events[1].events, failAt, t) ELSE s
        s2 == IF r.summary # Null THEN SaveSummary(s1, r.summary[1], t) ELSE s1
        s3 == IF r.me # Null THEN SaveAuthMe(s2, r.me[1], t) ELSE s2
        teamIdForSave == IF r.teams # Null /\ Len(r.teams[1]) > 0
                         THEN r.teams[1][1].id ELSE 0
        s4 == IF d # "skipped" /\ d # Null
              THEN SaveTeam(s3, d[1], teamIdForSave, t) ELSE s3
    IN  IF r.teams # Null THEN SaveTeams(s4, r.teams[1], t) ELSE s4

(***************************************************************************)
(* Initial state: usage.db exists with the empty schema, no window is      *)
(* running, and fetch.lock is absent, unparsable, parsable without a valid *)
(* startedAt, or left behind by a process that is gone.                    *)
(***************************************************************************)
LeftoverLocks == {NoLock, CorruptLock, LockContent(Null, Some("gone")),
                  LockContent(Some(-1), Some("gone"))}

Init ==
    /\ disk = EmptyDb
    /\ notif = Null
    /\ mem = [w \in Windows |-> EmptyDb]
    /\ open = [w \in Windows |-> FALSE]
    /\ now = 0
    /\ written = << >>
    /\ thrownAt = 0
    /\ wpc = [w \in Windows |-> "off"]
    /\ phase = "seed"
    /\ batch = << >>
    /\ snap = EmptyDb
    /\ before2 = EmptyDb
    /\ lockFile \in LeftoverLocks
    /\ WindowsOff

Quiet == "other"

(* what a releaseLock that returned did: unlinked the file, or met ENOENT *)
Released(file) == IF file.kind = "absent" THEN "releaseNoFile" ELSE "released"
frame == <<written, thrownAt, wpc, twiceVars>>

(* activate(), lines 18-934: Phase A (initialize, auto delete with the   *)
(* autoDeleteDays setting) may fail                                      *)
Activate(w, ok, days) ==
    /\ pc[w] = "off"
    /\ pc' = [pc EXCEPT ![w] = "idle"]
    /\ dbReady' = [dbReady EXCEPT ![w] = ok]
    /\ IF ok
       THEN LET loaded == disk
                kept == IF days > 0 THEN DeleteOlder(loaded, days, now)
                        ELSE loaded
            IN  /\ mem' = [mem EXCEPT ![w] = kept]
                /\ open' = [open EXCEPT ![w] = TRUE]
                /\ disk' = kept
                /\ notif' = IF days > 0 THEN Some(now) ELSE notif
       ELSE UNCHANGED <<mem, open, disk, notif>>
    /\ last' = Quiet
    /\ UNCHANGED <<now, written, thrownAt, wpc, twiceVars, lockFile, token,
                   inFlight, forceInitialSync, backgroundRunning, branch,
                   results, holding, acquiredAt>>

(***************************************************************************)
(* The refreshData command up to its first await, lines 194-232: the       *)
(* dbReady check, the single-flight guard, acquireLock.                    *)
(***************************************************************************)
GuardAlwaysOpen(w) == FALSE

Guard(w) == inFlight[w]

(* lines 208-216: inFlight = true, acquireLock() returned false, the guard *)
(* is cleared and the handler returns                                      *)
LockBusyKeepsGuard(w) ==
    /\ inFlight' = [inFlight EXCEPT ![w] = TRUE]
    /\ last' = "lockBusy"
    /\ UNCHANGED <<lockFile, backgroundRunning, pc, holding, acquiredAt>>

LockBusy(w) ==
    /\ inFlight' = [inFlight EXCEPT ![w] = FALSE]
    /\ last' = "lockBusy"
    /\ UNCHANGED <<lockFile, backgroundRunning, pc, holding, acquiredAt>>

RefreshBody(w) ==
    IF ~dbReady[w]
    THEN /\ last' = "dbNotReady"
         /\ UNCHANGED <<lockFile, inFlight, backgroundRunning, pc, holding,
                        acquiredAt>>
    ELSE IF Guard(w)
    THEN /\ last' = "guardBusy"
         /\ UNCHANGED <<lockFile, inFlight, backgroundRunning, pc, holding,
                        acquiredAt>>
    ELSE LET got == acquireLock(lockFile, now, w)
         IN  IF ~got.ok
             THEN LockBusy(w)
             ELSE /\ inFlight' = [inFlight EXCEPT ![w] = TRUE]
                  /\ lockFile' = got.file
                  /\ backgroundRunning' =
                         [backgroundRunning EXCEPT ![w] = FALSE]
                  /\ pc' = [pc EXCEPT ![w] = "getToken"]
                  /\ holding' = [holding EXCEPT ![w] = TRUE]
                  /\ acquiredAt' = [acquiredAt EXCEPT ![w] = now]
                  /\ last' = "acquired"

RefreshData(w) ==
    /\ pc[w] # "off"
    /\ RefreshBody(w)
    /\ UNCHANGED <<storeVars, wpc, twiceVars, token, dbReady,
                   forceInitialSync, branch, results>>

(***************************************************************************)
(* The cleanup of refreshData: the finally block, lines 680-704, and the   *)
(* .finally of the background continuation, lines 460-498.  s is the store *)
(* as the handler left it.  A releaseLock that throws leaves the rest of   *)
(* the block unexecuted.                                                   *)
(***************************************************************************)
(* the finally block without its release, for comparison *)
CleanupKeepsLock(w, s, err) ==
    /\ disk' = s.disk
    /\ notif' = s.notif
    /\ backgroundRunning' = [backgroundRunning EXCEPT ![w] = FALSE]
    /\ pc' = [pc EXCEPT ![w] = "idle"]
    /\ branch' = [branch EXCEPT ![w] = "none"]
    /\ results' = [results EXCEPT ![w] = NoResults]
    /\ mem' = [mem EXCEPT ![w] = s.disk]
    /\ open' = [open EXCEPT ![w] = TRUE]
    /\ last' = Quiet
    /\ UNCHANGED <<lockFile, inFlight, holding, acquiredAt>>

Cleanup(w, s, err) ==
    LET rel == releaseLock(lockFile, err)
    IN  /\ lockFile' = rel.file
        /\ disk' = s.disk
        /\ notif' = s.notif
        /\ backgroundRunning' = [backgroundRunning EXCEPT ![w] = FALSE]
        /\ pc' = [pc EXCEPT ![w] = "idle"]
        /\ branch' = [branch EXCEPT ![w] = "none"]
        /\ results' = [results EXCEPT ![w] = NoResults]
        /\ IF rel.threw
           THEN /\ mem' = [mem EXCEPT ![w] = s.memw]
                /\ open' = [open EXCEPT ![w] = s.open]
                /\ last' = "releaseThrew"
                /\ UNCHANGED <<inFlight, holding, acquiredAt>>
           ELSE /\ inFlight' = [inFlight EXCEPT ![w] = FALSE]
                /\ holding' = [holding EXCEPT ![w] = FALSE]
                /\ acquiredAt' = [acquiredAt EXCEPT ![w] = 0]
                /\ mem' = [mem EXCEPT ![w] = s.disk]
                /\ open' = [open EXCEPT ![w] = TRUE]
                /\ last' = Released(lockFile)

(***************************************************************************)
(* refreshData after getToken resolves, lines 232-267: without a token the *)
(* callback returns; else the branch is selected, the force flag consumed  *)
(* and the Phase 1 requests are issued.  getLatestEventTimestamp throws    *)
(* when the database is closed.                                            *)
(***************************************************************************)
AfterGetToken(w, err) ==
    /\ pc[w] = "getToken"
    /\ IF token = Null \/ (~forceInitialSync[w] /\ ~open[w])
       THEN /\ Cleanup(w, View(w), err)
            /\ UNCHANGED forceInitialSync
       ELSE /\ branch' = [branch EXCEPT ![w] =
                  IF IsInitialSync(forceInitialSync[w], mem[w])
                  THEN "initial" ELSE "delta"]
            /\ forceInitialSync' = [forceInitialSync EXCEPT ![w] = FALSE]
            /\ pc' = [pc EXCEPT ![w] = "phase1"]
            /\ last' = Quiet
            /\ UNCHANGED <<disk, notif, mem, open, lockFile, inFlight,
                           backgroundRunning, results, holding, acquiredAt>>
    /\ UNCHANGED <<now, frame, token, dbReady>>

(***************************************************************************)
(* refreshData from the purge to the finally block, lines 288-499 and      *)
(* 534-704: purge when the account has no team, Phase 2, Phase 3 (which    *)
(* throws when the events request was rejected), the launch of the         *)
(* background continuation, catch and finally.                             *)
(***************************************************************************)
Saved(w, r, d, failAt) ==
    LET s0 == View(w)
        s1 == IF r.teams # Null /\ Len(r.teams[1]) = 0
              THEN PurgeTeamMembers(s0, now) ELSE s0
    IN  Phase2(s1, r, d, failAt, now)

(* fetchEventsFirstPage, line 1525: hasMore of the first page *)
HasMoreNever(page) == FALSE

HasMore(page) == page.count >= PAGE_SIZE

Complete(w, r, d, failAt, err) ==
    LET s2 == Saved(w, r, d, failAt)
        hasMore == /\ branch[w] = "initial"
                   /\ r.events # Null
                   /\ ~s2.threw
                   /\ HasMore(r.events[1])
    IN  IF hasMore
        THEN /\ backgroundRunning' = [backgroundRunning EXCEPT ![w] = TRUE]
             /\ pc' = [pc EXCEPT ![w] = "background"]
             /\ disk' = s2.disk
             /\ notif' = s2.notif
             /\ mem' = [mem EXCEPT ![w] = s2.disk]
             /\ open' = [open EXCEPT ![w] = TRUE]
             /\ results' = [results EXCEPT ![w] = NoResults]
             /\ last' = Quiet
             /\ UNCHANGED <<lockFile, inFlight, holding, acquiredAt, branch>>
        ELSE Cleanup(w, s2, err)

(* the continuation of Promise.allSettled, lines 270-295 and 509-541 *)
AfterPhase1(w, r, failAt, err) ==
    /\ pc[w] = "phase1"
    /\ r.summary # Null => Len(disk.usage_summary) < MaxSummaries
    /\ IF r.teams # Null /\ Len(r.teams[1]) > 0
       THEN /\ pc' = [pc EXCEPT ![w] = "fetchTeam"]
            /\ results' = [results EXCEPT ![w] = r]
            /\ last' = Quiet
            /\ UNCHANGED <<disk, notif, mem, open, lockFile, inFlight,
                           backgroundRunning, branch, holding, acquiredAt>>
       ELSE Complete(w, r, "skipped", failAt, err)
    /\ UNCHANGED <<now, frame, token, dbReady, forceInitialSync>>

(* the continuation of fetchTeam, lines 284-286 and 530-532 *)
AfterFetchTeam(w, d, failAt, err) ==
    /\ pc[w] = "fetchTeam"
    /\ results[w].summary # Null => Len(disk.usage_summary) < MaxSummaries
    /\ Complete(w, results[w], d, failAt, err)
    /\ UNCHANGED <<now, frame, token, dbReady, forceInitialSync>>

(***************************************************************************)
(* The background continuation settles, lines 431-498: remaining is Null   *)
(* when fetchEventsRemainingPages rejected, else the events of pages 2..;  *)
(* a throwing save is caught like a rejection; then the .finally.          *)
(***************************************************************************)
BackgroundSettles(w, remaining, failAt, err) ==
    /\ pc[w] = "background"
    /\ LET s == IF remaining = Null THEN View(w)
                ELSE SaveEvents(View(w), remaining[1], failAt, now)
       IN  Cleanup(w, s, err)
    /\ UNCHANGED <<now, frame, token, dbReady, forceInitialSync>>

(***************************************************************************)
(* The setToken command in window w, lines 737-757, and the onTokenChanged *)
(* handler it fires in that window, lines 91-123.  The refreshData that    *)
(* retryRefresh requests once the guard is clear is a RefreshData step.    *)
(***************************************************************************)
SetToken(w, value) ==
    /\ pc[w] # "off"
    /\ token' = Some(value)
    /\ forceInitialSync' = [forceInitialSync EXCEPT ![w] = TRUE]
    /\ last' = Quiet
    /\ UNCHANGED <<storeVars, wpc, twiceVars, lockFile, dbReady, inFlight,
                   backgroundRunning, pc, branch, results, holding,
                   acquiredAt>>

(* the clearToken command, lines 762-781: the handler sees no new token *)
ClearToken(w) ==
    /\ pc[w] # "off"
    /\ token # Null
    /\ token' = Null
    /\ last' = Quiet
    /\ UNCHANGED <<storeVars, wpc, twiceVars, lockFile, dbReady, inFlight,
                   forceInitialSync, backgroundRunning, pc, branch,
                   results, holding, acquiredAt>>

(* the FileWatcher handler onDbUpdated, lines 60-72 *)
OnDbUpdated(w) ==
    /\ pc[w] # "off"
    /\ dbReady[w]
    /\ mem[w] # disk
    /\ mem' = [mem EXCEPT ![w] = disk]
    /\ last' = Quiet
    /\ UNCHANGED <<disk, notif, open, now, frame, lockFile, token, dbReady,
                   inFlight, forceInitialSync, backgroundRunning, pc, branch,
                   results, holding, acquiredAt>>

(***************************************************************************)
(* deactivate(), lines 940-953, and the exit of the extension host that    *)
(* follows it: releaseLock (which may throw), dispose, close.              *)
(***************************************************************************)
Deactivate(w, err) ==
    /\ pc[w] # "off"
    /\ LET rel == releaseLock(lockFile, err)
       IN  /\ lockFile' = rel.file
           /\ last' = IF rel.threw THEN "releaseThrew" ELSE Released(lockFile)
    /\ pc' = [pc EXCEPT ![w] = "off"]
    /\ dbReady' = [dbReady EXCEPT ![w] = FALSE]
    /\ inFlight' = [inFlight EXCEPT ![w] = FALSE]
    /\ forceInitialSync' = [forceInitialSync EXCEPT ![w] = FALSE]
    /\ backgroundRunning' = [backgroundRunning EXCEPT ![w] = FALSE]
    /\ branch' = [branch EXCEPT ![w] = "none"]
    /\ results' = [results EXCEPT ![w] = NoResults]
    /\ holding' = [holding EXCEPT ![w] = FALSE]
    /\ acquiredAt' = [acquiredAt EXCEPT ![w] = 0]
    /\ mem' = [mem EXCEPT ![w] = EmptyDb]
    /\ open' = [open EXCEPT ![w] = FALSE]
    /\ UNCHANGED <<disk, notif, now, frame, token>>

(* time passes *)
Tick ==
    /\ now < MaxClock
    /\ now' = NextInstant(now)
    /\ last' = Quiet
    /\ UNCHANGED <<disk, notif, mem, open, frame, lockFile, token, dbReady,
                   inFlight, forceInitialSync, backgroundRunning, pc, branch,
                   results, holding, acquiredAt>>

Next ==
    \/ \E w \in Windows, ok \in BOOLEAN, days \in RetentionDays :
          Activate(w, ok, days) /\ UNCHANGED restVars
    \/ \E w \in Windows : RefreshData(w) /\ UNCHANGED restVars
    \/ \E w \in Windows, err \in UnlinkErrors :
          AfterGetToken(w, err) /\ UNCHANGED restVars
    \/ \E w \in Windows, r \in Phase1EventsOnly, failAt \in 0..1,
          err \in UnlinkErrors :
              AfterPhase1(w, r, failAt, err) /\ UNCHANGED restVars
    \/ \E w \in Windows, remaining \in Settled({<< >>, <<SyncEvent>>}),
          failAt \in 0..1, err \in UnlinkErrors :
              BackgroundSettles(w, remaining, failAt, err)
                  /\ UNCHANGED restVars
    \/ \E w \in Windows, value \in Tokens :
          SetToken(w, value) /\ UNCHANGED restVars
    \/ \E w \in Windows : ClearToken(w) /\ UNCHANGED restVars
    \/ \E w \in Windows : OnDbUpdated(w) /\ UNCHANGED restVars
    \/ \E w \in Windows, err \in UnlinkErrors :
          Deactivate(w, err) /\ UNCHANGED restVars
    \/ Tick /\ UNCHANGED restVars

Spec == Init /\ [][Next]_vars

(***************************************************************************)
(* One window with every combination of settled results, the account being *)
(* in a team or not: the data flow of refreshData, at two instants.        *)
(***************************************************************************)
SyncWindow == "w1"

SyncInit ==
    /\ Init
    /\ lockFile = NoLock

(* Phase 3, lines 359-411 and 597-650: the notification by the results of  *)
(* the events and the summary request; it rethrows the reason of a         *)
(* rejected events request                                                 *)
Phase3ThrowsOnAnyFailure(r, d) ==
    r.events = Null \/ r.summary = Null \/ r.me = Null \/ r.teams = Null
        \/ (d # "skipped" /\ d = Null)

Phase3Throws(r, d) == r.events = Null

(* the catch block of refreshData, lines 653-678, is entered when the      *)
(* purge or a save of Phase 2 threw, or Phase 3 did                        *)
Caught(w, r, d, failAt) ==
    Saved(w, r, d, failAt).threw \/ Phase3Throws(r, d)

(* what the synchronous step that handles r and d saw and did *)
Observed(w, r, d, failAt) ==
    [step |-> "sync", r |-> r, d |-> d, threw |-> Saved(w, r, d, failAt).threw,
     branch |-> branch[w], members |-> disk.team_members # {},
     caught |-> Caught(w, r, d, failAt)]

(* how the background continuation settled *)
ObservedBackground(w, remaining, failAt) ==
    [NoSeen EXCEPT !.step = "background",
                   !.threw = \/ remaining = Null
                             \/ SaveEvents(View(w), remaining[1], failAt,
                                           now).threw]

syncFrame == <<tokenVars, fetchVars, persistVars, auxVars>>

SyncNext ==
    \/ \E days \in RetentionDays :
          /\ Activate(SyncWindow, TRUE, days)
          /\ seen' = NoSeen /\ UNCHANGED syncFrame
    \/ RefreshData(SyncWindow) /\ seen' = NoSeen /\ UNCHANGED syncFrame
    \/ /\ AfterGetToken(SyncWindow, "none")
       /\ seen' = [NoSeen EXCEPT !.step = IF token = Null THEN "noToken"
                                          ELSE "none"]
       /\ UNCHANGED syncFrame
    \/ \E r \in Phase1Results, failAt \in 0..1 :
          /\ AfterPhase1(SyncWindow, r, failAt, "none")
          /\ seen' = IF r.teams # Null /\ Len(r.teams[1]) > 0 THEN NoSeen
                     ELSE Observed(SyncWindow, r, "skipped", failAt)
          /\ UNCHANGED syncFrame
    \/ \E d \in Settled({ApiTeamResponse}), failAt \in 0..1 :
          /\ AfterFetchTeam(SyncWindow, d, failAt, "none")
          /\ seen' = Observed(SyncWindow, results[SyncWindow], d, failAt)
          /\ UNCHANGED syncFrame
    \/ \E remaining \in Settled({<< >>, <<SyncEvent>>}), failAt \in 0..1 :
          /\ BackgroundSettles(SyncWindow, remaining, failAt, "none")
          /\ seen' = ObservedBackground(SyncWindow, remaining, failAt)
          /\ UNCHANGED syncFrame
    \/ \E value \in Tokens :
          /\ SetToken(SyncWindow, value)
          /\ seen' = NoSeen /\ UNCHANGED syncFrame
    \/ ClearToken(SyncWindow) /\ seen' = NoSeen /\ UNCHANGED syncFrame
    \/ Deactivate(SyncWindow, "none") /\ seen' = NoSeen /\ UNCHANGED syncFrame
    \/ Tick /\ now = 0 /\ seen' = NoSeen /\ UNCHANGED syncFrame

SpecSync == SyncInit /\ [][SyncNext]_vars

(***************************************************************************)
(* The lock file                                                           *)
(***************************************************************************)
(* the lock file exists, parses, and its startedAt is at most 120 s old *)
FreshLockPresent ==
    /\ lockFile.kind = "json"
    /\ lockFile.startedAt # Null
    /\ now - lockFile.startedAt[1] <= 120 * 1000

(* C6: acquireLock() returns false and leaves fetch.lock unchanged exactly   *)
(* when the file exists, parses and its startedAt is at most 120 seconds     *)
(* before now; in every other case it writes {startedAt: now, pid: self}     *)
(* and returns true.                                                         *)
C6_AcquireLockContract ==
    [][/\ last' = "lockBusy" =>
            /\ FreshLockPresent
            /\ lockFile' = lockFile
            /\ UNCHANGED <<pc, holding, inFlight>>
       /\ last' = "acquired" =>
            /\ ~FreshLockPresent
            /\ \E w \in Windows :
                  /\ pc[w] = "idle" /\ pc'[w] = "getToken"
                  /\ lockFile' = LockContent(Some(now), Some(w))
       /\ \A w \in Windows :
             (pc[w] = "idle" /\ pc'[w] = "getToken") => last' = "acquired"
      ]_vars

(* an attempt was refused by a lock exactly 120 seconds old *)
C6_Witness ==
    /\ last = "lockBusy"
    /\ lockFile.startedAt # Null
    /\ now - lockFile.startedAt[1] = 120 * 1000

(* C7: if every holder acquired the lock less than 120 seconds ago, at most  *)
(* one window is between its successful acquireLock() and its releaseLock(). *)
C7_AtMostOneHolder ==
    (\A w \in Windows : holding[w] => now - acquiredAt[w] < 120 * 1000)
        => Cardinality({w \in Windows : holding[w]}) <= 1

(* C8: releaseLock() deletes fetch.lock if it is present, returns without    *)
(* effect if the file is already gone, and re-throws any other deletion      *)
(* error, leaving the file in place.                                         *)
C8_ReleaseLockIdempotent ==
    [][/\ last' = "released" => lockFile.kind # "absent" /\ lockFile' = NoLock
       /\ last' = "releaseNoFile" => lockFile = NoLock /\ lockFile' = NoLock
       /\ last' = "releaseThrew" =>
             lockFile.kind # "absent" /\ lockFile' = lockFile
      ]_vars

(* a release has found the file already gone *)
C8_Witness == last = "releaseNoFile" /\ lockFile = NoLock

(***************************************************************************)
(* The single-flight guard and the branch selection                        *)
(***************************************************************************)
Running(w) == pc[w] \in {"getToken", "phase1", "fetchTeam", "background"}

(* C9: the guard of a window is set for as long as its sync runs, the      *)
(* background continuation included, and a refreshData invocation that     *)
(* finds it set starts no sync and changes neither the lock file, nor the  *)
(* store, nor any variable of the window.                                  *)
C9_SingleFlight ==
    [][/\ \A w \in Windows : Running(w)' => inFlight'[w]
       /\ \A w \in Windows :
             inFlight[w] =>
                 ~(last' = "acquired" /\ lockFile'.pid = Some(w))
       /\ last' = "guardBusy" =>
             /\ \E w \in Windows : inFlight[w]
             /\ UNCHANGED <<disk, notif, mem, open, now, lockFile, token,
                            dbReady, inFlight, forceInitialSync,
                            backgroundRunning, pc, branch, results, holding,
                            acquiredAt>>
      ]_vars

(* an invocation has found the guard set during the background continuation *)
C9_Witness ==
    /\ last = "guardBusy"
    /\ \E w \in Windows : pc[w] = "background" /\ inFlight[w]

(* C10: the branch is InitialSync exactly when the force flag is set or    *)
(* getLatestEventTimestamp() returns null, which it does exactly when the  *)
(* window's database holds no event; otherwise the branch is DeltaSync.    *)
C10_BranchSelection ==
    [][\A w \in Windows :
          (pc[w] = "getToken" /\ pc'[w] = "phase1") =>
              /\ branch'[w] \in {"initial", "delta"}
              /\ branch'[w] = "initial" <=>
                    (forceInitialSync[w] \/ mem[w].usage_events = {})
              /\ mem[w].usage_events = {} <=>
                    getLatestEventTimestamp(mem[w]) = Null
      ]_vars

(* a forced initial sync over a database that holds events *)
C10_Witness ==
    \E w \in Windows :
        /\ pc[w] = "phase1"
        /\ branch[w] = "initial"
        /\ mem[w].usage_events # {}

(***************************************************************************)
(* The background continuation                                             *)
(***************************************************************************)
(* the lock file as the window wrote it when it acquired the lock *)
LockHeld(w) ==
    /\ lockFile = LockContent(Some(acquiredAt[w]), Some(w))
    /\ holding[w]
    /\ inFlight[w]

LockGone(w) ==
    /\ lockFile = NoLock
    /\ ~holding[w]
    /\ ~inFlight[w]

(* the last step ended the synchronous step of an InitialSync whose first *)
(* page was full                                                          *)
FullFirstPage ==
    /\ seen.step = "sync"
    /\ seen.branch = "initial"
    /\ seen.r.events # Null
    /\ seen.r.events[1].count >= PAGE_SIZE

NoTeam ==
    /\ seen.step = "sync"
    /\ seen.r.teams = Some(<< >>)

(* C18: after a sync whose team-list request succeeded with zero teams    *)
(* the store holds no team_members row, in memory and on disk, whatever   *)
(* the other requests did, and no team-detail request was issued.         *)
C18_NoTeamPurgesMembers ==
    /\ NoTeam =>
          /\ disk.team_members = {}
          /\ mem[SyncWindow].team_members = {}
          /\ seen.d = "skipped"
    /\ pc[SyncWindow] = "fetchTeam" =>
          /\ results[SyncWindow].teams # Null
          /\ Len(results[SyncWindow].teams[1]) > 0

(* membership rows of an earlier sync were there, the events request of   *)
(* this sync was rejected, and the rows are gone                          *)
C18_Witness ==
    /\ NoTeam
    /\ seen.members
    /\ seen.r.events = Null
    /\ disk.team_members = {}
    /\ mem[SyncWindow].team_members = {}

(* db holds what the fulfilled summary, identity and team-list results of *)
(* r say, written at t                                                    *)
AuxiliaryStored(db, r, t) ==
    /\ r.summary # Null =>
          /\ Len(db.usage_summary) > 0
          /\ db.usage_summary[Len(db.usage_summary)]
                = SummaryRow(r.summary[1], t)
    /\ r.me # Null => db.auth_me = {AuthMeRow(r.me[1], t)}
    /\ r.teams # Null =>
          db.teams = {TeamsRow(r.teams[1], r.teams[1][i], t) :
                         i \in 1..Len(r.teams[1])}

MaxPersists == 3

PersistInit ==
    /\ disk = EmptyDb
    /\ notif = Null
    /\ mem = [w \in Windows |-> EmptyDb]
    /\ open = [w \in Windows |-> TRUE]
    /\ now = 0
    /\ written = << >>
    /\ thrownAt = 0
    /\ wpc = [w \in Windows |-> "idle"]
    /\ phase = "seed"
    /\ batch = << >>
    /\ snap = EmptyDb
    /\ before2 = EmptyDb
    /\ lockFile = NoLock
    /\ WindowsOff

persistFrame == <<written, thrownAt, twiceVars, orchVars, tokenVars, seen,
                  fetchVars, auxVars>>

(* a write handler up to its persist(): reload, then the mutation *)
BeginWrite(w, e) ==
    /\ wpc[w] = "idle"
    /\ dbVersion < MaxPersists
    /\ mem' = [mem EXCEPT ![w] =
                  [disk EXCEPT !.usage_events = @ \cup {InsertedRow(e, now)}]]
    /\ wpc' = [wpc EXCEPT ![w] = "write"]
    /\ presult' = [presult EXCEPT ![w] = NoPersist]
    /\ watched' = "none"
    /\ UNCHANGED <<disk, notif, open, now, dbVersion, announced, observed,
                   reloaded, shown, persistFrame>>

(* persist(), lines 253-259: export and writeFileSync(dbPath); a write    *)
(* that throws leaves persist() by the exception                          *)
PersistDb(w, ok) ==
    /\ wpc[w] = "write"
    /\ IF ok
       THEN /\ disk' = mem[w]
            /\ dbVersion' = dbVersion + 1
            /\ wpc' = [wpc EXCEPT ![w] = "touch"]
            /\ presult' = [presult EXCEPT ![w] =
                              [result |-> "none", wrote |-> <<"usage.db">>,
                               version |-> dbVersion + 1]]
       ELSE /\ wpc' = [wpc EXCEPT ![w] = "idle"]
            /\ presult' = [presult EXCEPT ![w].result = "threw"]
            /\ UNCHANGED <<disk, dbVersion>>
    /\ watched' = "none"
    /\ UNCHANGED <<notif, mem, open, now, announced, observed, reloaded, shown,
                   persistFrame>>

(* what persist() does when the touch has failed: lines 269-272 log *)
TouchFailureThrows(touched) == IF touched THEN "ok" ELSE "threw"

TouchFailureLogged(touched) == "ok"

(* persist(), lines 262-272: the touch of db-updated.json in its try *)
PersistTouch(w, touched) ==
    /\ wpc[w] = "touch"
    /\ IF touched
       THEN /\ notif' = Some(now)
            /\ announced' = presult[w].version
            /\ presult' = [presult EXCEPT
                              ![w].wrote = Append(@, "db-updated.json"),
                              ![w].result = TouchFailureLogged(touched)]
       ELSE /\ presult' = [presult EXCEPT
                              ![w].result = TouchFailureLogged(touched)]
            /\ UNCHANGED <<notif, announced>>
    /\ wpc' = [wpc EXCEPT ![w] = "idle"]
    /\ watched' = "none"
    /\ UNCHANGED <<disk, mem, open, now, dbVersion, observed, reloaded, shown,
                   persistFrame>>

(* a handler that would end with a persist() of what it reloaded *)
WatcherPersists(w) ==
    /\ wpc[w] = "idle"
    /\ notif # Null
    /\ mem' = reload(w)
    /\ shown' = [shown EXCEPT ![w] = mem'[w]]
    /\ observed' = [observed EXCEPT ![w] = announced]
    /\ reloaded' = [reloaded EXCEPT ![w] = dbVersion]
    /\ watched' = w
    /\ disk' = mem'[w]
    /\ dbVersion' = IF dbVersion < MaxPersists THEN dbVersion + 1 ELSE dbVersion
    /\ announced' = dbVersion'
    /\ notif' = Some(now)
    /\ UNCHANGED <<open, now, wpc, presult, persistFrame>>

(* the FileWatcher handler onDbUpdated of an idle window, extension.ts    *)
(* 60-72: reload, then the UI refresh from the reloaded database.  The    *)
(* watcher may deliver the same announcement more than once (onDidChange  *)
(* and onDidCreate are both subscribed).                                  *)
Watcher(w) ==
    /\ wpc[w] = "idle"
    /\ notif # Null
    /\ mem' = reload(w)
    /\ shown' = [shown EXCEPT ![w] = mem'[w]]
    /\ observed' = [observed EXCEPT ![w] = announced]
    /\ reloaded' = [reloaded EXCEPT ![w] = dbVersion]
    /\ watched' = w
    /\ UNCHANGED <<disk, notif, open, now, wpc, dbVersion, announced, presult,
                   persistFrame>>

PersistNext ==
    \/ \E w \in Windows, e \in FileEvents : BeginWrite(w, e)
    \/ \E w \in Windows, ok \in BOOLEAN : PersistDb(w, ok)
    \/ \E w \in Windows, touched \in BOOLEAN : PersistTouch(w, touched)
    \/ \E w \in Windows : Watcher(w)

SpecPersist == PersistInit /\ [][PersistNext]_vars

(* C20: a persist() that succeeds has written usage.db first and then     *)
(* db-updated.json; the notification never announces a database write     *)
(* that has not happened, so a watcher that handles it reloads a file     *)
(* holding that write or a later one; when the touch fails persist()      *)
(* still succeeds and the database write stays.                           *)
C20_DbThenNotification ==
    /\ [](/\ announced <= dbVersion
          /\ notif # Null => announced > 0
          /\ \A w \in Windows :
                /\ reloaded[w] >= observed[w]
                /\ presult[w].wrote \in {<< >>, <<"usage.db">>,
                                          <<"usage.db", "db-updated.json">>}
                /\ presult[w].result = "ok" =>
                      /\ Len(presult[w].wrote) >= 1
                      /\ presult[w].version <= dbVersion
                /\ presult[w].result = "threw" => presult[w].wrote = << >>)
    /\ [][\A w \in Windows :
            (wpc[w] = "touch" /\ wpc'[w] = "idle") =>
                /\ presult'[w].result = "ok"
                /\ disk' = disk
                /\ dbVersion' = dbVersion]_vars

(* C21: a sibling whose watcher receives the notification of a persist   *)
(* reloads before it refreshes its UI and ends the handler with its       *)
(* in-memory store equal to the file, which holds that persist's write    *)
(* or a later one; handling the same notification again gives the same    *)
(* result.                                                                *)
C21_WatcherReloads ==
    /\ [](\A w \in Windows :
            watched = w =>
                /\ mem[w] = disk
                /\ shown[w] = disk
                /\ observed[w] = announced
                /\ reloaded[w] = dbVersion
                /\ reloaded[w] >= announced)
    /\ [][\A w \in Windows :
            (watched = w /\ watched' = w) =>
                (mem'[w] = mem[w] /\ shown'[w] = shown[w])]_vars

(* the watcher of a window has taken in the write another window         *)
(* persisted and announced                                                *)
C21_Witness ==
    \E w \in Windows, v \in Windows :
        /\ w # v
        /\ watched = w
        /\ presult[v].result = "ok"
        /\ presult[v].wrote = <<"usage.db", "db-updated.json">>
        /\ announced = presult[v].version
        /\ mem[w] = disk
        /\ disk # EmptyDb

(* a persist() whose touch failed has returned, its database write is on  *)
(* disk and no notification was ever written                              *)
C20_Witness ==
    \E w \in Windows :
        /\ presult[w].result = "ok"
        /\ presult[w].wrote = <<"usage.db">>
        /\ wpc[w] = "idle"
        /\ disk = mem[w]
        /\ disk # EmptyDb
        /\ notif = Null

(***************************************************************************)
(* The upstream requests: httpPost, withRetry, fetchUsageEvents and the    *)
(* page loops of fetchEventsRemainingPages and fetchDeltaEvents.           *)
(***************************************************************************)
MAX_PAGES == 100
MAX_RETRIES == 2
RETRY_DELAYS == <<300, 900>>

(* what the transport does with one request: the timeout event, an error  *)
(* event with its code, or a response with its status and body            *)
NetCodes == {"ECONNRESET", "ECONNREFUSED", "ENOTFOUND", "ETIMEDOUT", "EPIPE",
             "ECONNABORTED", "EAI_AGAIN", ""}
Statuses == {200, 302, 400, 401, 403, 404, 408, 429, 499, 500, 599, 600}
Bodies == {"page0", "pageShort", "pageFull", "notJson", "noCount", "noArray"}
RawEvents ==
    {[t |-> "timeout", status |-> 0, code |-> "", body |-> ""]}
    \cup {[t |-> "error", status |-> 0, code |-> c, body |-> ""] :
             c \in NetCodes}
    \cup {[t |-> "response", status |-> sc, body |-> b] :
             sc \in Statuses \ {200}, b \in {""}}
    \cup {[t |-> "response", status |-> 200, body |-> b] : b \in Bodies}

FetchError(class, status, code) ==
    [class |-> class, status |-> status, code |-> code]
TokenNotConfiguredError ==
    FetchError("TokenNotConfiguredError", 0, "TOKEN_NOT_CONFIGURED")
ApiParseError == FetchError("ApiParseError", 0, "")
InvalidTimestamp == FetchError("Error", 0, "")

(* httpPost, lines 2151-2222: resolves with the body of a 2xx response *)
httpPost(raw) ==
    IF raw.t = "timeout"
    THEN [ok |-> FALSE, err |-> FetchError("ApiTimeoutError", 0, "")]
    ELSE IF raw.t = "error"
    THEN [ok |-> FALSE, err |-> FetchError("Error", 0, raw.code)]
    ELSE IF raw.status = 401 \/ raw.status = 403
    THEN [ok |-> FALSE,
          err |-> FetchError("ApiUnauthorizedError", raw.status,
                             "API_UNAUTHORIZED")]
    ELSE IF raw.status < 200 \/ raw.status >= 300
    THEN [ok |-> FALSE, err |-> FetchError("ApiHttpError", raw.status, "")]
    ELSE [ok |-> TRUE, body |-> raw.body]

(* isRetryable, lines 1081-1107 *)
isRetryableAlways(err) == TRUE

isRetryable(err) ==
    IF err.class = "ApiTimeoutError" THEN TRUE
    ELSE IF err.class = "ApiHttpError"
    THEN \/ err.status = 408
         \/ err.status = 429
         \/ (err.status >= 500 /\ err.status <= 599)
    ELSE err.code \in {"ECONNRESET", "ECONNREFUSED", "ENOTFOUND", "ETIMEDOUT",
                       "EPIPE", "ECONNABORTED"}

(* withRetry, line 1137: the attempt that failed was the last one *)
GivesUpLate(attempt, maxRetries) == attempt > maxRetries

GivesUp(attempt, maxRetries) == attempt >= maxRetries

(* withRetry, line 1141: RETRY_DELAYS[attempt] ?? the last delay *)
RetryDelay(attempt) ==
    IF attempt + 1 <= Len(RETRY_DELAYS) THEN RETRY_DELAYS[attempt + 1]
    ELSE RETRY_DELAYS[Len(RETRY_DELAYS)]

(* fetchUsageEvents, lines 1464-1495: JSON.parse and the structure checks; *)
(* count is usageEventsDisplay.length                                      *)
ParseEvents(body) ==
    IF body = "page0" THEN [ok |-> TRUE, count |-> 0]
    ELSE IF body = "pageShort" THEN [ok |-> TRUE, count |-> PAGE_SIZE - 1]
    ELSE IF body = "pageFull" THEN [ok |-> TRUE, count |-> PAGE_SIZE]
    ELSE [ok |-> FALSE, count |-> 0]

(* the start page: fetchEventsRemainingPages is called with 2 (line 428), *)
(* fetchDeltaEvents starts at 1 (line 1628)                               *)
StartPage(kind) == IF kind = "remaining" THEN 2 ELSE 1

(* the loop conditions of lines 1551 and 1630 *)
InRangeNoCeiling(page) == TRUE

InRange(page) == page <= MAX_PAGES

(* the break of lines 1558-1560 and 1637-1639 *)
IsLastPageNever(count) == FALSE

IsLastPage(count) == count < PAGE_SIZE

FetchKinds == {"remaining", "delta"}
FetchTokens == {"", "tokA"}

FetchInit ==
    /\ Init
    /\ lockFile = NoLock

fetchFrame == <<storeVars, wpc, twiceVars, orchVars, tokenVars, seen,
                persistVars, auxVars>>

Returned == [kind |-> "returned", err |-> Null]
Threw(err) == [kind |-> "threw", err |-> Some(err)]

(* the call of a paged fetch up to its first request: the token check     *)
(* (lines 1543, 1613) and, for the delta fetch, parseInt (1619-1622)      *)
FetchStart(kind, tok, validTimestamp) ==
    /\ fpc = "idle"
    /\ fkind' = kind
    /\ ftoken' = tok
    /\ IF tok = ""
       THEN /\ fpc' = "done"
            /\ fout' = Threw(TokenNotConfiguredError)
            /\ UNCHANGED fpage
       ELSE IF kind = "delta" /\ ~validTimestamp
       THEN /\ fpc' = "done"
            /\ fout' = Threw(InvalidTimestamp)
            /\ UNCHANGED fpage
       ELSE /\ fpage' = StartPage(kind)
            /\ IF InRange(StartPage(kind))
               THEN fpc' = "request" /\ UNCHANGED fout
               ELSE fpc' = "done" /\ fout' = Returned
    /\ UNCHANGED <<fattempt, fwaited, fsettled, flastErr, frequested, fshort,
                   fetchFrame>>

(* one attempt of withRetry inside fetchUsageEvents(page) settles, lines  *)
(* 1125-1147 and 1464-1495, and the loop body that follows a response,     *)
(* lines 1554-1561 and 1633-1640                                           *)
AttemptSettles(raw) ==
    /\ fpc = "request"
    /\ frequested' = fpage
    /\ LET res == httpPost(raw)
       IN  IF res.ok
           THEN LET parsed == ParseEvents(res.body)
                IN  /\ fsettled' = "ok"
                    /\ IF ~parsed.ok
                       THEN /\ fpc' = "done"
                            /\ fout' = Threw(ApiParseError)
                            /\ UNCHANGED <<fpage, fattempt, fshort, flastErr,
                                           fwaited>>
                       ELSE IF IsLastPage(parsed.count)
                       THEN /\ fpc' = "done"
                            /\ fout' = Returned
                            /\ fshort' = (parsed.count < PAGE_SIZE)
                            /\ UNCHANGED <<fpage, fattempt, flastErr,
                                           fwaited>>
                       ELSE /\ fpage' = fpage + 1
                            /\ fshort' = (parsed.count < PAGE_SIZE)
                            /\ IF InRange(fpage + 1)
                               THEN /\ fpc' = "request"
                                    /\ fattempt' = 0
                                    /\ fwaited' = << >>
                                    /\ flastErr' = Null
                                    /\ UNCHANGED fout
                               ELSE /\ fpc' = "done"
                                    /\ fout' = Returned
                                    /\ UNCHANGED <<fattempt, flastErr,
                                                   fwaited>>
           ELSE /\ fsettled' = "failed"
                /\ flastErr' = Some(res.err)
                /\ IF ~isRetryable(res.err) \/ GivesUp(fattempt, MAX_RETRIES)
                   THEN /\ fpc' = "done"
                        /\ fout' = Threw(res.err)
                   ELSE /\ fpc' = "sleep"
                        /\ UNCHANGED fout
                /\ UNCHANGED <<fpage, fattempt, fwaited, fshort>>
    /\ UNCHANGED <<fkind, ftoken, fetchFrame>>

(* withRetry, lines 1141-1147: the sleep ends and the loop goes on *)
SleepEnds ==
    /\ fpc = "sleep"
    /\ fwaited' = Append(fwaited, RetryDelay(fattempt))
    /\ fattempt' = fattempt + 1
    /\ fpc' = "request"
    /\ fsettled' = "none"
    /\ UNCHANGED <<fkind, ftoken, fpage, flastErr, frequested, fshort, fout,
                   fetchFrame>>

FetchNext ==
    \/ \E kind \in FetchKinds, tok \in FetchTokens, valid \in BOOLEAN :
          FetchStart(kind, tok, valid)
    \/ \E raw \in RawEvents : AttemptSettles(raw)
    \/ SleepEnds

SpecFetch == FetchInit /\ [][FetchNext]_vars

(* every request settles (HTTP_TIMEOUT_MS bounds it) and every sleep ends *)
FairSpecFetch ==
    /\ SpecFetch
    /\ WF_vars(\E raw \in RawEvents : AttemptSettles(raw))
    /\ WF_vars(SleepEnds)

(* C15: withRetry invokes its operation at most 3 times, returns at the   *)
(* first success, has waited 300 ms before the second attempt and 900 ms  *)
(* before the third, and when the third attempt fails too the error it    *)
(* propagates is the error of that attempt.                               *)
C15_RetryPolicy ==
    /\ fattempt + 1 <= 3
    /\ fwaited = SubSeq(<<300, 900>>, 1, fattempt)
    /\ fsettled = "ok" =>
          /\ fpc # "sleep"
          /\ fpc = "request" => (fattempt = 0 /\ fwaited = << >>)
    /\ (fsettled = "failed" /\ fattempt = 2) => fpc = "done"
    /\ (fsettled = "failed" /\ fpc = "done") =>
          /\ flastErr # Null
          /\ fout = Threw(flastErr[1])

(* three attempts failed with retryable errors, the last one with 500 *)
C15_Witness ==
    /\ fpc = "done"
    /\ fattempt = 2
    /\ fwaited = <<300, 900>>
    /\ fsettled = "failed"
    /\ fout = Threw(FetchError("ApiHttpError", 500, ""))

(* the failures after which the fetch may try again, as the claim lists   *)
(* them                                                                   *)
ListedAsRetryable(e) ==
    \/ e.class = "ApiTimeoutError"
    \/ /\ e.class = "ApiHttpError"
       /\ e.status \in {408, 429} \cup (500..599)
    \/ /\ e.class = "Error"
       /\ e.code \in {"ECONNRESET", "ECONNREFUSED", "ENOTFOUND", "ETIMEDOUT",
                       "EPIPE", "ECONNABORTED"}

(* C16: a further attempt is made only after a timeout, HTTP 408, 429 or  *)
(* 5xx, or a listed network error code; any other failure (401, 403,      *)
(* another status, a parse or validation error) ends the fetch at once,   *)
(* with no wait after it; a missing token ends it before any request.     *)
C16_RetryOnlyTransient ==
    /\ (fpc = "sleep" \/ (fpc = "request" /\ fattempt > 0)) =>
          /\ flastErr # Null
          /\ ListedAsRetryable(flastErr[1])
    /\ (fsettled = "failed" /\ ~ListedAsRetryable(flastErr[1])) =>
          /\ fpc = "done"
          /\ fout = Threw(flastErr[1])
          /\ Len(fwaited) = fattempt
    /\ fout = Threw(ApiParseError) =>
          /\ fpc = "done"
          /\ fsettled = "ok"
          /\ Len(fwaited) = fattempt
    /\ fout = Threw(TokenNotConfiguredError) =>
          /\ fpc = "done"
          /\ frequested = 0
          /\ fsettled = "none"
          /\ fwaited = << >>

(* the first request was answered 403: one request, no wait, the fetch    *)
(* has ended                                                              *)
C16_Witness ==
    /\ fpc = "done"
    /\ fout = Threw(FetchError("ApiUnauthorizedError", 403,
                               "API_UNAUTHORIZED"))
    /\ fattempt = 0
    /\ fwaited = << >>
    /\ frequested = StartPage(fkind)

(* C17: a paged fetch requests consecutive pages from its start page,     *)
(* stops right after the first page shorter than PAGE_SIZE, never         *)
(* requests a page above 100, and ends.                                   *)
C17_PageLoop ==
    /\ [](/\ frequested <= 100
          /\ fshort => (fpc = "done" /\ fout = Returned)
          /\ fpc = "request" => fpage \in StartPage(fkind)..100)
    /\ [][frequested' # frequested =>
            frequested' = IF frequested = 0 THEN StartPage(fkind)
                          ELSE frequested + 1]_vars
    /\ (fpc = "request") ~> (fpc = "done")

(* page 100 was full: the fetch returned without requesting page 101 *)
C17_Witness ==
    /\ fpc = "done"
    /\ fout = Returned
    /\ frequested = 100
    /\ fpage = 101
    /\ ~fshort

(***************************************************************************)
(* The token change: TokenService.setToken stores the value and then fires *)
(* onTokenChanged in the window where the command ran (tokenService.ts     *)
(* 45-53); the handler of extension.ts 91-123 sets forceInitialSync and    *)
(* calls retryRefresh, which polls inFlight every 500 ms.  Two windows     *)
(* share the credential store and the database; a sync of the account of   *)
(* tokA may have stored events before.                                     *)
(***************************************************************************)
TokenValues == {"tokA", "tokB"}

StoredUnderA ==
    [EmptyDb EXCEPT !.usage_events = {InsertedRow(SyncEvent, 0)}]

TokenInit ==
    /\ disk \in {EmptyDb, StoredUnderA}
    /\ notif = Null
    /\ mem = [w \in Windows |-> disk]
    /\ open = [w \in Windows |-> TRUE]
    /\ now = 0
    /\ written = << >>
    /\ thrownAt = 0
    /\ wpc = [w \in Windows |-> "off"]
    /\ phase = "seed"
    /\ batch = << >>
    /\ snap = EmptyDb
    /\ before2 = EmptyDb
    /\ lockFile = NoLock
    /\ token = Some("tokA")
    /\ dbReady = [w \in Windows |-> TRUE]
    /\ inFlight = [w \in Windows |-> FALSE]
    /\ forceInitialSync = [w \in Windows |-> FALSE]
    /\ backgroundRunning = [w \in Windows |-> FALSE]
    /\ pc = [w \in Windows |-> "idle"]
    /\ branch = [w \in Windows |-> "none"]
    /\ results = [w \in Windows |-> NoResults]
    /\ holding = [w \in Windows |-> FALSE]
    /\ acquiredAt = [w \in Windows |-> 0]
    /\ last = "init"
    /\ tokenHandler = [w \in Windows |-> "none"]
    /\ byHandler = [w \in Windows |-> FALSE]
    /\ initialSince = TRUE
    /\ usedToken = [w \in Windows |-> Null]
    /\ seen = NoSeen
    /\ FetchOff
    /\ PersistOff
    /\ AuxOff

tokenFrame == <<seen, fetchVars, persistVars, auxVars>>

(* setToken up to the end of secretStorage.store, tokenService.ts 45-52 *)
StoreToken(w, value) ==
    /\ pc[w] # "off"
    /\ tokenHandler[w] = "none"
    /\ token # Some(value)
    /\ token' = Some(value)
    /\ tokenHandler' = [tokenHandler EXCEPT ![w] = "fire"]
    /\ initialSince' = FALSE
    /\ last' = Quiet
    /\ UNCHANGED <<storeVars, wpc, twiceVars, lockFile, dbReady, inFlight,
                   forceInitialSync, backgroundRunning, pc, branch, results,
                   holding, acquiredAt, byHandler, usedToken, tokenFrame>>

(* _onTokenChanged.fire(value) and the handler, extension.ts 92-121: the  *)
(* flag is set; retryRefresh runs refreshData at once when no sync is in  *)
(* flight, else sets its timer                                            *)
FireTokenChanged(w) ==
    /\ tokenHandler[w] = "fire"
    /\ forceInitialSync' = [forceInitialSync EXCEPT ![w] = TRUE]
    /\ IF inFlight[w]
       THEN /\ tokenHandler' = [tokenHandler EXCEPT ![w] = "timer"]
            /\ last' = Quiet
            /\ UNCHANGED <<lockFile, inFlight, backgroundRunning, pc, holding,
                           acquiredAt>>
       ELSE /\ tokenHandler' = [tokenHandler EXCEPT ![w] = "none"]
            /\ RefreshBody(w)
    /\ UNCHANGED <<storeVars, wpc, twiceVars, token, dbReady, branch, results,
                   byHandler, initialSince, usedToken, tokenFrame>>

(* the timer of retryRefresh fires with no sync in flight, lines 104-117; *)
(* while inFlight is set it only sets the timer again                     *)
RetryRefresh(w) ==
    /\ tokenHandler[w] = "timer"
    /\ ~inFlight[w]
    /\ tokenHandler' = [tokenHandler EXCEPT ![w] = "none"]
    /\ RefreshBody(w)
    /\ byHandler' = [byHandler EXCEPT ![w] = (pc'[w] = "getToken")]
    /\ UNCHANGED <<storeVars, wpc, twiceVars, token, dbReady,
                   forceInitialSync, branch, results, initialSince,
                   usedToken, tokenFrame>>

(* the sync of w has returned: it is no longer the handler's *)
HandlerSyncEnds(w) ==
    /\ byHandler' = [byHandler EXCEPT ![w] =
                        IF pc'[w] = "idle" THEN FALSE ELSE @]
    /\ usedToken' = [usedToken EXCEPT ![w] =
                        IF pc'[w] = "idle" THEN Null
                        ELSE IF pc[w] = "getToken" THEN token ELSE @]

TokenNext ==
    \/ \E w \in Windows, value \in TokenValues : StoreToken(w, value)
    \/ \E w \in Windows : FireTokenChanged(w)
    \/ \E w \in Windows : RetryRefresh(w)
    \/ \E w \in Windows :
          /\ RefreshData(w)
          /\ UNCHANGED <<tokenVars, tokenFrame>>
    \/ \E w \in Windows :
          /\ AfterGetToken(w, "none")
          /\ HandlerSyncEnds(w)
          /\ UNCHANGED <<tokenHandler, initialSince, tokenFrame>>
    \/ \E w \in Windows, r \in Phase1EventsOnly :
          /\ AfterPhase1(w, r, 0, "none")
          /\ HandlerSyncEnds(w)
          /\ initialSince' = \/ initialSince
                             \/ /\ branch[w] = "initial"
                                /\ r.events # Null
                                /\ usedToken[w] = token
          /\ UNCHANGED <<tokenHandler, tokenFrame>>
    \/ \E w \in Windows, remaining \in Settled({<< >>, <<SyncEvent>>}) :
          /\ BackgroundSettles(w, remaining, 0, "none")
          /\ HandlerSyncEnds(w)
          /\ UNCHANGED <<tokenHandler, initialSince, tokenFrame>>
    \/ \E w \in Windows :
          /\ OnDbUpdated(w)
          /\ UNCHANGED <<tokenVars, tokenFrame>>

SpecToken == TokenInit /\ [][TokenNext]_vars

(* C11: when the token changed while a sync was in flight, the handler    *)
(* invokes refreshData only once inFlight is false, and the sync that     *)
(* invocation starts takes the InitialSync branch.                        *)
C11_HandlerSyncIsInitial ==
    /\ [](\A w \in Windows :
            (byHandler[w] /\ branch[w] # "none") => branch[w] = "initial")
    /\ [][\A w \in Windows :
            (byHandler'[w] /\ ~byHandler[w]) => ~inFlight[w]]_vars

(* C12: in every window, a sync that fetches with the stored token takes  *)
(* the DeltaSync branch only if, since that token was stored, an          *)
(* InitialSync has fetched its first page with it.                        *)
C12_FirstSyncWithNewTokenIsInitial ==
    \A w \in Windows :
        (branch[w] = "delta" /\ usedToken[w] = token) => initialSince

(* only auxiliary requests of the step were rejected *)
OnlyAuxiliaryFailed ==
    /\ seen.step = "sync"
    /\ seen.r.events # Null
    /\ \/ seen.r.summary = Null \/ seen.r.me = Null \/ seen.r.teams = Null
       \/ (seen.d # "skipped" /\ seen.d = Null)

C26_LockBusyReturns ==
    [][last' = "lockBusy" =>
          /\ UNCHANGED <<disk, notif, mem, open, written, lockFile, token,
                         dbReady, inFlight, forceInitialSync,
                         backgroundRunning, pc, branch, results, holding,
                         acquiredAt>>
          /\ \E w \in Windows :
                /\ pc[w] # "off" /\ dbReady[w] /\ ~inFlight'[w]
                /\ ~acquireLock(lockFile, now, w).ok]_vars

(* a window was refused the lock that a sibling in its background          *)
(* continuation holds                                                      *)
C26_Witness ==
    /\ last = "lockBusy"
    /\ lockFile.kind = "json"
    /\ \E w \in Windows : pc[w] = "background" /\ holding[w]
    /\ \E w \in Windows : pc[w] = "idle" /\ ~inFlight[w]

(***************************************************************************)
(* DbService.deleteOlderThan(days) on its own: one window whose store is   *)
(* open, called with every retention period on every store whose rows were *)
(* fetched zero to MaxDays days before the call.                           *)
(***************************************************************************)
RetentionWindow == "w1"
FetchedAts == {d * DAY_MS : d \in 0..MaxDays}
DaysArgs == 0..(MaxDays + 1)

(* usage_events has one row per natural key *)
StoredEventSets ==
    {rows \in SUBSET {InsertedRow(e, t) : e \in FileEvents, t \in FetchedAts} :
        \A a, b \in rows : KeyOf(a) = KeyOf(b) => a = b}

StoredSummaries ==
    SeqsUpTo({SummaryRow(ApiUsageSummary, t) : t \in FetchedAts}, MaxSummaries)

(* the identity and the team list, stored when the oldest rows were *)
StoredIdentity ==
    [EmptyDb EXCEPT !.auth_me = {AuthMeRow(ApiAuthMe, 0)},
                    !.teams = {TeamsRow(<<ApiTeam>>, ApiTeam, 0)}]

RetentionStores ==
    {[base EXCEPT !.usage_events = rows, !.usage_summary = sums] :
        base \in {EmptyDb, StoredIdentity}, rows \in StoredEventSets,
        sums \in StoredSummaries}

RetentionInit ==
    /\ disk \in RetentionStores
    /\ notif = Some(0)
    /\ mem = [w \in Windows |-> disk]
    /\ open = [w \in Windows |-> w = RetentionWindow]
    /\ now = MaxDays * DAY_MS
    /\ written = << >>
    /\ thrownAt = 0
    /\ wpc = [w \in Windows |-> "off"]
    /\ phase = "seed"
    /\ batch = << >>
    /\ snap = EmptyDb
    /\ before2 = EmptyDb
    /\ lockFile = NoLock
    /\ WindowsOff

(* db.getRowsModified() after a DELETE, part_004 337 and 341 *)
RowsModified(before, after) == before - after

(* deleteOlderThan(days), part_004 332-348 *)
DeleteOlderThan(w, days) ==
    /\ open[w]
    /\ LET after == DeleteOlder(mem[w], days, now)
           eventsDeleted == RowsModified(Cardinality(mem[w].usage_events),
                                         Cardinality(after.usage_events))
           summaryDeleted == RowsModified(Len(mem[w].usage_summary),
                                          Len(after.usage_summary))
       IN  /\ mem' = [mem EXCEPT ![w] = after]
           /\ persist(w, after)
           /\ returned' = eventsDeleted + summaryDeleted
    /\ daysArg' = days
    /\ beforeDelete' = mem[w]
    /\ UNCHANGED <<open, now, thrownAt, wpc, twiceVars, orchVars, tokenVars,
                   seen, fetchVars, persistVars, closeVars, viewVars,
                   leakVars, staleVars, dateVars, lateVars>>

RetentionNext == \E days \in DaysArgs : DeleteOlderThan(RetentionWindow, days)

SpecRetention == RetentionInit /\ [][RetentionNext]_vars

(* C22: after deleteOlderThan(days) the store holds exactly the events and *)
(* summaries of before whose fetched_at does not precede now - days, every *)
(* other table is as before, the value returned is the number of rows that *)
(* preceded it, and usage.db and db-updated.json were written, whatever    *)
(* that number.                                                            *)
C22_DeleteOlderThan ==
    daysArg # -1 =>
        LET threshold == now - daysArg * DAY_MS
            Old(r) == r.fetched_at < threshold
            Kept(r) == ~Old(r)
            m == mem[RetentionWindow]
        IN  /\ m.usage_events = {r \in beforeDelete.usage_events : Kept(r)}
            /\ m.usage_summary = SelectSeq(beforeDelete.usage_summary, Kept)
            /\ m.auth_me = beforeDelete.auth_me
            /\ m.team_members = beforeDelete.team_members
            /\ m.teams = beforeDelete.teams
            /\ returned = Cardinality({r \in beforeDelete.usage_events : Old(r)})
                          + Len(SelectSeq(beforeDelete.usage_summary, Old))
            /\ disk = m
            /\ notif = Some(now)
            /\ written = <<"usage.db", "db-updated.json">>

(* a call that deleted an event and a summary and kept a row fetched       *)
(* exactly at the threshold                                                *)
C22_Witness ==
    /\ daysArg = 1
    /\ returned = 2
    /\ \E r \in mem[RetentionWindow].usage_events : r.fetched_at = now - DAY_MS
    /\ beforeDelete.auth_me # {}
    /\ written = <<"usage.db", "db-updated.json">>

(***************************************************************************)
(* The store operations around DbService.close().  close() sets db to null *)
(* and leaves SQL, dbPath and the files alone (part_004 353-358); getDb,   *)
(* persist and deleteOlderThan test db, reload tests SQL and the file.     *)
(* Window w1 calls every operation in every order; w2 is a sibling that    *)
(* keeps saving.  deactivate() does not end the process by itself: what    *)
(* was pending when it ran, the background continuation included, still    *)
(* settles in the same extension host.                                     *)
(***************************************************************************)
ClosingWindow == "w1"
closeFrame == <<written, thrownAt, wpc, twiceVars, orchVars, tokenVars, seen,
                fetchVars, persistVars, retentionVars, viewVars, leakVars,
                staleVars, dateVars, lateVars>>

CloseInit ==
    /\ disk \in {EmptyDb, StoredIdentity, StoredUnderA}
    /\ notif = Some(0)
    /\ mem = [w \in Windows |-> disk]
    /\ open = [w \in Windows |-> TRUE]
    /\ now = DAY_MS
    /\ written = << >>
    /\ thrownAt = 0
    /\ wpc = [w \in Windows |-> "off"]
    /\ phase = "seed"
    /\ batch = << >>
    /\ snap = EmptyDb
    /\ before2 = EmptyDb
    /\ lockFile = NoLock
    /\ WindowsOff

(* the record of a call: whether close() had run before it, whether it     *)
(* threw, and whether it changed the in-memory or the on-disk store        *)
StoreOp(name, w, threw, changed) ==
    [name |-> name, w |-> w, afterClose |-> closed[w], threw |-> threw,
     changed |-> changed]

(* deactivate(), line 951: dbService.close() *)
Close(w) ==
    /\ open' = [open EXCEPT ![w] = FALSE]
    /\ mem' = [mem EXCEPT ![w] = EmptyDb]
    /\ closed' = [closed EXCEPT ![w] = TRUE]
    /\ storeOp' = StoreOp("close", w, FALSE, open[w])
    /\ UNCHANGED <<disk, notif, now, closeFrame>>

(* getDb(), part_004 300-305 *)
GetDb(w) ==
    /\ storeOp' = StoreOp("getDb", w, ~open[w], FALSE)
    /\ UNCHANGED <<disk, notif, mem, open, now, closed, closeFrame>>

(* reload(), part_004 279-295: SQL is set and usage.db exists *)
Reload(w) ==
    /\ mem' = reload(w)
    /\ open' = [open EXCEPT ![w] = TRUE]
    /\ storeOp' = StoreOp("reload", w, FALSE, mem' # mem \/ open' # open)
    /\ UNCHANGED <<disk, notif, now, closed, closeFrame>>

(* persist(), part_004 252-273 *)
Persist(w) ==
    /\ IF open[w]
       THEN /\ disk' = mem[w]
            /\ notif' = Some(now)
            /\ storeOp' = StoreOp("persist", w, FALSE, TRUE)
       ELSE /\ UNCHANGED <<disk, notif>>
            /\ storeOp' = StoreOp("persist", w, TRUE, FALSE)
    /\ UNCHANGED <<mem, open, now, closed, closeFrame>>

(* deleteOlderThan(days), part_004 332-348 *)
DeleteOlderThanCall(w, days) ==
    /\ IF open[w]
       THEN LET after == DeleteOlder(mem[w], days, now)
            IN  /\ mem' = [mem EXCEPT ![w] = after]
                /\ disk' = after
                /\ notif' = Some(now)
                /\ storeOp' = StoreOp("deleteOlderThan", w, FALSE, TRUE)
       ELSE /\ UNCHANGED <<disk, notif, mem>>
            /\ storeOp' = StoreOp("deleteOlderThan", w, TRUE, FALSE)
    /\ UNCHANGED <<open, now, closed, closeFrame>>

(* the store as a save (reload, getDb, SQL, persist) leaves it *)
StoreAfter(name, w, s) ==
    /\ disk' = s.disk
    /\ notif' = s.notif
    /\ mem' = [mem EXCEPT ![w] = s.memw]
    /\ open' = [open EXCEPT ![w] = s.open]
    /\ storeOp' = StoreOp(name, w, s.threw, TRUE)
    /\ UNCHANGED <<now, closed, closeFrame>>

(* saveSummaryToDb, lines 1887-1923 *)
SaveSummaryToDb(w) ==
    /\ Len(disk.usage_summary) < MaxSummaries
    /\ StoreAfter("save", w, SaveSummary(View(w), ApiUsageSummary, now))

(* the background continuation settles with the events of the remaining    *)
(* pages, lines 431-436                                                    *)
ContinuationSaves(w) ==
    /\ \E k \in NaturalKeys :
          /\ \A r \in disk.usage_events : KeyOf(r) # k
          /\ StoreAfter("background", w,
                        SaveEvents(View(w), <<ApiUsageEvent(k, 1)>>, 0, now))

CloseNext ==
    \/ Close(ClosingWindow)
    \/ GetDb(ClosingWindow)
    \/ Reload(ClosingWindow)
    \/ Persist(ClosingWindow)
    \/ \E days \in RetentionDays \ {0} : DeleteOlderThanCall(ClosingWindow, days)
    \/ \E w \in Windows : SaveSummaryToDb(w)
    \/ ContinuationSaves(ClosingWindow)

SpecClose == CloseInit /\ [][CloseNext]_vars

(* C23: a store operation other than close() that is called in a window    *)
(* after that window's close() throws and changes neither the in-memory    *)
(* nor the on-disk store.                                                  *)
C23_ClosedStoreRejects ==
    (storeOp.afterClose /\ storeOp.name # "close") =>
        (storeOp.threw /\ ~storeOp.changed)

(***************************************************************************)
(* WebviewService.sendDataToWebview, webviewService.ts 280-342: the events *)
(* it serves, for every store the syncs can leave.  Users 1 and 2, teams 7 *)
(* and 8; the identity, when stored, is user 1; the team list, when        *)
(* stored, is team 7.                                                      *)
(***************************************************************************)
ViewWindow == "w1"
UserIds == {1, 2}
TeamIds == {7, 8}
Roles == {"TEAM_ROLE_OWNER", "TEAM_ROLE_MEMBER"}

(* toApiUsageEvent, lines 1200-1201: String(r.owningUser), String(r.owningTeam) *)
OwnedEvent(u, t) ==
    [ApiUsageEvent(<<1, IF t = 7 THEN "auto" ELSE "gpt", ToString(u)>>, 1)
        EXCEPT !.owningTeam = ToString(t)]

ViewEventSets == SUBSET {InsertedRow(OwnedEvent(u, t), 0) : u \in UserIds, t \in TeamIds}

MemberRow(u, role) ==
    [id |-> u, name |-> "", role |-> role, email |-> "m@example.com",
     user_id |-> 1, team_id |-> 7, raw_json |-> << >>, fetched_at |-> 0]

(* team_members: empty, or the members of team 7 with their roles *)
ViewMembers ==
    {{}} \cup {{MemberRow(1, r), MemberRow(2, "TEAM_ROLE_OWNER")} : r \in Roles}
         \cup {{MemberRow(2, "TEAM_ROLE_OWNER")}}

(* the stores: team_members holds rows only while a team is stored         *)
ViewStores ==
    {db \in [usage_events : ViewEventSets,
             usage_summary : {<< >>, <<SummaryRow(ApiUsageSummary, 0)>>},
             auth_me : {{}, {AuthMeRow(ApiAuthMe, 0)}},
             team_members : ViewMembers,
             teams : {{}, {TeamsRow(<<ApiTeam>>, ApiTeam, 0)}}] :
        db.teams = {} => db.team_members = {}}

ViewInit ==
    /\ disk \in ViewStores
    /\ notif = Some(0)
    /\ mem = [w \in Windows |-> EmptyDb]
    /\ open = [w \in Windows |-> TRUE]
    /\ now = 0
    /\ written = << >>
    /\ thrownAt = 0
    /\ wpc = [w \in Windows |-> "off"]
    /\ phase = "seed"
    /\ batch = << >>
    /\ snap = EmptyDb
    /\ before2 = EmptyDb
    /\ lockFile = NoLock
    /\ WindowsOff

(* buildUserContext, lines 429-463: myUserId from auth_me *)
MyUserId(db) ==
    IF db.auth_me = {} THEN Null
    ELSE Some((CHOOSE r \in db.auth_me : TRUE).id)

(* buildUserContext: myRole, the role of the team_members row whose id is  *)
(* myUserId                                                                *)
MyRole(db) ==
    LET me == MyUserId(db)
        mine == {m \in db.team_members : me # Null /\ m.id = me[1]}
    IN  IF mine = {} THEN Null ELSE Some((CHOOSE m \in mine : TRUE).role)

(* getMyTeamId, lines 469-476 *)
MyTeamId(db) ==
    IF db.teams = {} THEN Null
    ELSE Some((CHOOSE t \in db.teams :
                  \A o \in db.teams : o.fetched_at <= t.fetched_at).id)

(* the WHERE clause of lines 293-313 *)
ServedEvents(db) ==
    LET me == MyUserId(db)
        role == MyRole(db)
        team == MyTeamId(db)
    IN  IF team # Null
        THEN {e \in db.usage_events :
                /\ e.owning_team = ToString(team[1])
                /\ (role = Some("TEAM_ROLE_MEMBER") /\ me # Null)
                      => e.owning_user = ToString(me[1])}
        ELSE IF me # Null
        THEN {e \in db.usage_events : e.owning_user = ToString(me[1])}
        ELSE db.usage_events

(* sendDataToWebview: reload, then the filtered SELECT *)
SendDataToWebview(w) ==
    /\ mem' = reload(w)
    /\ served' = [sent |-> TRUE, events |-> ServedEvents(mem'[w])]
    /\ UNCHANGED <<disk, notif, open, now, written, thrownAt, wpc, twiceVars,
                   orchVars, tokenVars, seen, fetchVars, persistVars,
                   retentionVars, closeVars, leakVars, staleVars, dateVars, lateVars>>

(* exportCsv, lines 801-849: the same three lookups and WHERE clause on the *)
(* in-memory database, without a reload                                    *)
ExportedEvents(db) ==
    LET me == MyUserId(db)
        team == MyTeamId(db)
        role == IF me # Null /\ team # Null THEN MyRole(db) ELSE Null
    IN  IF team # Null
        THEN {e \in db.usage_events :
                /\ e.owning_team = ToString(team[1])
                /\ (role = Some("TEAM_ROLE_MEMBER") /\ me # Null)
                      => e.owning_user = ToString(me[1])}
        ELSE IF me # Null
        THEN {e \in db.usage_events : e.owning_user = ToString(me[1])}
        ELSE db.usage_events

ExportCsv(w) ==
    /\ exported' = [done |-> TRUE, events |-> ExportedEvents(mem[w]),
                    from |-> Some(mem[w])]
    /\ UNCHANGED <<disk, notif, mem, open, now, written, thrownAt, wpc,
                   twiceVars, orchVars, tokenVars, seen, fetchVars, persistVars,
                   retentionVars, closeVars, viewVars, leakVars, staleVars,
                   dateVars, replaceVars, memoVars, barShown>>

(* StatusBarService.getLatestEvent, statusBarService.ts 159-196: the rows   *)
(* ORDER BY timestamp DESC LIMIT 1 may return, filtered by owning_team     *)
(* when a team is stored and not filtered otherwise                        *)
LatestEventCandidates(db) ==
    LET team == MyTeamId(db)
        rows == IF team # Null
                THEN {e \in db.usage_events : e.owning_team = ToString(team[1])}
                ELSE db.usage_events
    IN  {e \in rows : \A o \in rows : o.timestamp <= e.timestamp}

(* StatusBarService.refresh, statusBarService.ts 36-76: token, latest       *)
(* summary, latest event                                                   *)
StatusBarRefresh(w, stored) ==
    /\ \E shownEvent \in
            IF stored = Null \/ mem[w].usage_summary = << >>
               \/ LatestEventCandidates(mem[w]) = {}
            THEN {Null}
            ELSE {Some(e) : e \in LatestEventCandidates(mem[w])} :
          barShown' = [done |-> TRUE, event |-> shownEvent, from |-> Some(mem[w])]
    /\ UNCHANGED <<disk, notif, mem, open, now, written, thrownAt, wpc,
                   twiceVars, orchVars, tokenVars, seen, fetchVars, persistVars,
                   retentionVars, closeVars, viewVars, leakVars, staleVars,
                   dateVars, replaceVars, memoVars, exported>>

ViewNext ==
    \/ SendDataToWebview(ViewWindow)
    \/ ExportCsv(ViewWindow)
    \/ \E stored \in Settled(TokenValues) : StatusBarRefresh(ViewWindow, stored)

SpecView == ViewInit /\ [][ViewNext]_vars

(* C24: the events served to the UI satisfy the access-control projection: *)
(* with a team stored they belong to that team and, when the identity's    *)
(* role in it is member, to the identity; with no team stored they belong  *)
(* to one user, the stored identity.                                       *)
C24_ProjectionHolds ==
    served.sent =>
        LET db == mem[ViewWindow]
            me == MyUserId(db)
            team == MyTeamId(db)
        IN  IF team # Null
            THEN \A e \in served.events :
                    /\ e.owning_team = ToString(team[1])
                    /\ MyRole(db) = Some("TEAM_ROLE_MEMBER")
                          => e.owning_user = ToString(me[1])
            ELSE /\ \A e \in served.events :
                       me # Null => e.owning_user = ToString(me[1])
                 /\ \A e, f \in served.events : e.owning_user = f.owning_user

(* C35: the webview projection, the CSV export and the status bar's        *)
(* latest event select from the same filtered set of events: for the store *)
(* image a read path ran on, the export holds the events the webview       *)
(* projection of that image holds, and the event the status bar shows is   *)
(* one of them.                                                            *)
C35_SameProjection ==
    /\ exported.done => exported.events = ServedEvents(exported.from[1])
    /\ (barShown.done /\ barShown.event # Null) =>
          barShown.event[1] \in ServedEvents(barShown.from[1])

(***************************************************************************)
(* What a fetch writes to the log and shows to the user.  Two runs, one    *)
(* with each token value, issue the same requests and are given the same   *)
(* server responses; emitted[t] collects the console lines and the user    *)
(* messages of the run whose token is t.                                   *)
(***************************************************************************)
Runs == TokenValues

(* httpPost, lines 2170-2180: the request options *)
RequestOptions(tok) ==
    [method |-> "POST", cookie |-> <<"WorkosCursorSessionToken=", tok>>]

(* fetchUsageEvents, lines 1435-1442: body and the line that logs it *)
RequestBody(page) == [page |-> page, pageSize |-> PAGE_SIZE]

RequestLogWithCookie(options, body) ==
    <<"API-A request body", body, options.cookie>>

RequestLog(options, body) == <<"API-A request body", body>>

(* Error.message of the classes of lines 1012-1058 and of a Node error *)
MessageOf(err, raw) ==
    IF err.class = "ApiHttpError" THEN <<"API error (HTTP status): body", err.status, raw.body>>
    ELSE IF err.class = "ApiUnauthorizedError" THEN <<"auth error (HTTP status)", err.status>>
    ELSE IF err.class = "ApiTimeoutError" THEN <<"request timed out">>
    ELSE IF err.class = "ApiParseError" THEN <<"response parse error">>
    ELSE <<"Error", err.code>>

(* the notification of the catch block, lines 653-672 *)
UserMessage(err, raw) ==
    IF err.class = "ApiUnauthorizedError" THEN <<"token invalid or expired">>
    ELSE IF err.class = "ApiTimeoutError" THEN <<"API timeout">>
    ELSE IF err.class = "ApiHttpError" THEN <<"API error (HTTP status)", err.status>>
    ELSE IF err.class = "ApiParseError" THEN <<"response could not be parsed">>
    ELSE <<"fetch failed", MessageOf(err, raw)>>

(* the lines of one fetchUsageEvents call that was answered with raw and   *)
(* of the catch block when it threw                                        *)
Outputs(tok, page, raw) ==
    LET res == httpPost(raw)
        failed(err) == <<UserMessage(err, raw),
                         <<"refreshData failed", MessageOf(err, raw)>>>>
    IN  <<RequestLog(RequestOptions(tok), RequestBody(page))>> \o
        (IF ~res.ok THEN failed(res.err)
         ELSE <<<<"API-A raw response", res.body>>>> \o
              (IF ParseEvents(res.body).ok
               THEN <<<<"API-A page", page, ParseEvents(res.body).count>>>>
               ELSE failed(ApiParseError)))

LeakInit ==
    /\ Init
    /\ lockFile = NoLock

(* both runs fetch the same page and are answered alike *)
FetchInBothRuns(page, raw) ==
    /\ \A t \in Runs : Len(emitted[t]) < 3 * MaxCalls
    /\ emitted' = [t \in Runs |-> emitted[t] \o Outputs(t, page, raw)]
    /\ sentCookie' = [t \in Runs |-> RequestOptions(t).cookie[2]]
    /\ UNCHANGED <<storeVars, wpc, twiceVars, orchVars, tokenVars, seen,
                   fetchVars, persistVars, retentionVars, closeVars, viewVars,
                   staleVars, dateVars, lateVars>>

LeakNext == \E page \in 1..2, raw \in RawEvents : FetchInBothRuns(page, raw)

SpecLeak == LeakInit /\ [][LeakNext]_vars

(* C25: the log lines and messages of two runs that differ only in the     *)
(* token value and are given the same responses are identical.             *)
C25_OutputsIgnoreToken ==
    \A t, u \in Runs : emitted[t] = emitted[u]

(* both runs sent their own token, were answered with an HTTP error and    *)
(* then with a page, and logged both                                       *)
C25_Witness ==
    /\ sentCookie["tokA"] = "tokA"
    /\ sentCookie["tokB"] = "tokB"
    /\ \E i \in 1..Len(emitted["tokA"]) : emitted["tokA"][i][1] = "API error (HTTP status)"
    /\ \E i \in 1..Len(emitted["tokB"]) : emitted["tokB"][i][1] = "API-A page"

(***************************************************************************)
(* A lock left behind.  Window w1 may be killed while it holds fetch.lock: *)
(* the process ends without deactivate() and without the finally block, so *)
(* the file stays.  Window w2 stays alive; its auto-refresh timer (lines   *)
(* 158-180) keeps calling refreshData.  No token is configured, so a sync  *)
(* that acquired the lock ends at the token check and releases it.         *)
(***************************************************************************)
Survivor == "w2"
StaleHorizon == MaxClock + STALE_LOCK_THRESHOLD_SEC * 1000 + 1

StaleInit ==
    /\ Init
    /\ lockFile = NoLock

(* the extension host of w is killed *)
Terminate(w) ==
    /\ pc[w] # "off"
    /\ now <= MaxClock
    /\ pc' = [pc EXCEPT ![w] = "off"]
    /\ dbReady' = [dbReady EXCEPT ![w] = FALSE]
    /\ inFlight' = [inFlight EXCEPT ![w] = FALSE]
    /\ forceInitialSync' = [forceInitialSync EXCEPT ![w] = FALSE]
    /\ backgroundRunning' = [backgroundRunning EXCEPT ![w] = FALSE]
    /\ branch' = [branch EXCEPT ![w] = "none"]
    /\ results' = [results EXCEPT ![w] = NoResults]
    /\ holding' = [holding EXCEPT ![w] = FALSE]
    /\ acquiredAt' = [acquiredAt EXCEPT ![w] = 0]
    /\ mem' = [mem EXCEPT ![w] = EmptyDb]
    /\ open' = [open EXCEPT ![w] = FALSE]
    /\ last' = Quiet
    /\ UNCHANGED <<disk, notif, now, frame, token, lockFile>>

(* time passes, far enough for every lock left behind to become stale *)
StaleTick ==
    /\ now < StaleHorizon
    /\ now' = NextInstant(now)
    /\ last' = Quiet
    /\ UNCHANGED <<disk, notif, mem, open, frame, lockFile, token, dbReady,
                   inFlight, forceInitialSync, backgroundRunning, pc, branch,
                   results, holding, acquiredAt>>

staleFrame == <<tokenVars, seen, fetchVars, persistVars, retentionVars,
                closeVars, viewVars, leakVars, dateVars, lateVars>>

StaleActivate(w) ==
    Activate(w, TRUE, 0) /\ UNCHANGED <<staleFrame, overwrote>>

(* refreshData up to acquireLock; a successful acquireLock records what it *)
(* found in fetch.lock                                                     *)
StaleRefresh(w) ==
    /\ RefreshData(w)
    /\ overwrote' = IF last' = "acquired" THEN lockFile ELSE overwrote
    /\ UNCHANGED staleFrame

StaleSyncEnds(w) ==
    AfterGetToken(w, "none") /\ UNCHANGED <<staleFrame, overwrote>>

StaleNext ==
    \/ \E w \in Windows : StaleActivate(w)
    \/ \E w \in Windows : StaleRefresh(w)
    \/ \E w \in Windows : StaleSyncEnds(w)
    \/ \E w \in Windows \ {Survivor} :
          Terminate(w) /\ UNCHANGED <<staleFrame, overwrote>>
    \/ StaleTick /\ UNCHANGED <<staleFrame, overwrote>>

SpecStale == StaleInit /\ [][StaleNext]_vars

(* the timers of the surviving window fire and its handlers run to the end *)
FairSpecStale ==
    /\ SpecStale
    /\ WF_vars(StaleTick /\ UNCHANGED <<staleFrame, overwrote>>)
    /\ WF_vars(StaleActivate(Survivor))
    /\ WF_vars(StaleRefresh(Survivor))
    /\ WF_vars(StaleSyncEnds(Survivor))

(* fetch.lock holds the lock of a process that is gone *)
Orphaned ==
    /\ lockFile.kind = "json"
    /\ lockFile.startedAt # Null
    /\ \E w \in Windows : lockFile.pid = Some(w) /\ pc[w] = "off"

(* C28: an acquireLock() called more than 120 s after the startedAt of the *)
(* lock in fetch.lock returns true, and once a lock is left behind by a    *)
(* process that ended without releasing it, a later refreshData acquires   *)
(* the lock.                                                               *)
C28_StaleLockTakenOver ==
    /\ [][(/\ last' \in {"lockBusy", "acquired"}
           /\ lockFile.kind = "json"
           /\ lockFile.startedAt # Null
           /\ now - lockFile.startedAt[1] > STALE_LOCK_THRESHOLD_SEC * 1000)
          => last' = "acquired"]_vars
    /\ Orphaned ~> (last = "acquired")

(* the surviving window has just taken over the lock that the killed       *)
(* window acquired more than 120 s earlier                                 *)
C28_Witness ==
    /\ last = "acquired"
    /\ pc["w1"] = "off"
    /\ overwrote.kind = "json"
    /\ overwrote.pid = Some("w1")
    /\ lockFile = LockContent(Some(now), Some(Survivor))
    /\ now - overwrote.startedAt[1] > STALE_LOCK_THRESHOLD_SEC * 1000

(***************************************************************************)
(* The backfill against the clock.  Window w1 runs an InitialSync whose    *)
(* first page is full and continues in the background; window w2 calls     *)
(* refreshData meanwhile.  No window is deactivated or killed.  The pages  *)
(* of the continuation take time: each request may run into the 15 s       *)
(* timeout and is retried twice (lines 998-1007), for up to 99 pages; the  *)
(* clock advances only while a continuation is running.                    *)
(***************************************************************************)
BackfillWindow == "w1"

BackfillInit ==
    /\ Init
    /\ lockFile = NoLock

backfillFrame == <<restVars>>

BackfillNext ==
    \/ \E w \in Windows : Activate(w, TRUE, 0) /\ UNCHANGED backfillFrame
    \/ SetToken(BackfillWindow, "tokA") /\ UNCHANGED backfillFrame
    \/ \E w \in Windows : RefreshData(w) /\ UNCHANGED backfillFrame
    \/ \E w \in Windows : AfterGetToken(w, "none") /\ UNCHANGED backfillFrame
    \/ \E w \in Windows, r \in Phase1EventsOnly :
          AfterPhase1(w, r, 0, "none") /\ UNCHANGED backfillFrame
    \/ \E w \in Windows, remaining \in Settled({<< >>, <<SyncEvent>>}) :
          BackgroundSettles(w, remaining, 0, "none") /\ UNCHANGED backfillFrame
    \/ /\ \E w \in Windows : pc[w] = "background"
       /\ StaleTick
       /\ UNCHANGED backfillFrame

SpecBackfill == BackfillInit /\ [][BackfillNext]_vars

(* C29: while the background continuation of a window's InitialSync is     *)
(* running, acquireLock() called in any other window returns false.        *)
C29_BackfillKeepsLock ==
    \A w, o \in Windows :
        (w # o /\ pc[w] = "background" /\ pc[o] # "off")
            => ~acquireLock(lockFile, now, o).ok

(***************************************************************************)
(* The date window of the page requests of one sync.  The clock advances   *)
(* between the requests and the watcher may reload a store whose newest    *)
(* event is newer, so a window computed again for a later page would       *)
(* differ from the one of the first page.                                  *)
(***************************************************************************)
DatesWindow == "w1"

(* String(Date.now() - ONE_YEAR_MS), lines 1001 and 1516 *)
YearBefore(t) == [of |-> t, less |-> "ONE_YEAR_MS"]

(* const startDate = latestTimestamp, line 1624: the stored string as is *)
AsStored(latestTimestamp) == [of |-> latestTimestamp, less |-> "nothing"]

(* fetchEventsFirstPage, lines 1515-1516 *)
FirstPageWindow(t) == [startDate |-> YearBefore(t), endDate |-> Some(t)]

(* fetchDeltaEvents, lines 1624-1625 *)
DeltaWindow(latestTimestamp, t) ==
    [startDate |-> AsStored(latestTimestamp), endDate |-> Some(t)]

(* the startDate and endDate a request of a later page is built from:      *)
(* the parameters of fetchEventsRemainingPages (lines 424-429, 1552) and   *)
(* the locals of fetchDeltaEvents (1632)                                   *)
LaterPageWindowRecomputed(held, kind, t, db) ==
    IF kind = "remaining" THEN FirstPageWindow(t)
    ELSE DeltaWindow(getLatestEventTimestamp(db)[1], t)

LaterPageWindow(held, kind, t, db) == held

NewerEvent == [SyncEvent EXCEPT !.timestamp = 2]

DatesInit ==
    /\ disk \in {EmptyDb, StoredUnderA}
    /\ notif = Null
    /\ mem = [w \in Windows |-> disk]
    /\ open = [w \in Windows |-> TRUE]
    /\ now = 0
    /\ written = << >>
    /\ thrownAt = 0
    /\ wpc = [w \in Windows |-> "off"]
    /\ phase = "seed"
    /\ batch = << >>
    /\ snap = EmptyDb
    /\ before2 = EmptyDb
    /\ lockFile = NoLock
    /\ WindowsOff

datesFrame == <<disk, notif, open, written, thrownAt, wpc, twiceVars,
                orchVars, tokenVars, seen, fetchVars, persistVars,
                retentionVars, closeVars, viewVars, leakVars, staleVars,
                lateVars>>

(* branch selection (lines 243-247) and the first request of the sync:     *)
(* page 1 of fetchEventsFirstPage or of fetchDeltaEvents                   *)
FirstRequest(w, force) ==
    /\ dpc = "idle"
    /\ LET latest == IF force THEN Null ELSE getLatestEventTimestamp(mem[w])
           window == IF latest = Null THEN FirstPageWindow(now)
                     ELSE DeltaWindow(latest[1], now)
       IN  /\ dmark' = latest
           /\ dwindow' = window
           /\ dsent' = {window}
           /\ dpc' = IF latest = Null THEN "first" ELSE "delta"
    /\ dstarted' = now
    /\ dpage' = 1
    /\ UNCHANGED <<mem, now, datesFrame>>

(* the page was answered: a short page ends the fetch; a full first page   *)
(* hands startDate and endDate to fetchEventsRemainingPages (lines         *)
(* 338-339, 424-429); otherwise the loop requests the next page            *)
NextRequest(w, count) ==
    /\ dpc \in {"first", "remaining", "delta"}
    /\ IF IsLastPage(count) \/ ~InRange(dpage + 1)
       THEN /\ dpc' = "done"
            /\ UNCHANGED <<dwindow, dpage, dsent>>
       ELSE LET kind == IF dpc = "delta" THEN "delta" ELSE "remaining"
                window == LaterPageWindow(dwindow, kind, now, mem[w])
            IN  /\ dpc' = kind
                /\ dwindow' = window
                /\ dpage' = dpage + 1
                /\ dsent' = dsent \cup {window}
    /\ UNCHANGED <<dmark, dstarted, mem, now, datesFrame>>

(* the sync is over; the next one starts from branch selection *)
SyncOver ==
    /\ dpc = "done"
    /\ dpc' = "idle"
    /\ dmark' = Null
    /\ dstarted' = 0
    /\ dwindow' = NoWindow
    /\ dpage' = 0
    /\ dsent' = {}
    /\ UNCHANGED <<mem, now, datesFrame>>

(* onDbUpdated reloads a store to which a sibling added a newer event *)
WatcherReloadsNewer(w) ==
    /\ getLatestEventTimestamp(mem[w]) # Some(2)
    /\ mem' = [mem EXCEPT ![w].usage_events =
                  @ \cup {InsertedRow(NewerEvent, now)}]
    /\ UNCHANGED <<now, dateVars, datesFrame>>

DatesTick ==
    /\ now < MaxClock
    /\ now' = NextInstant(now)
    /\ UNCHANGED <<mem, dateVars, datesFrame>>

DatesNext ==
    \/ \E force \in BOOLEAN : FirstRequest(DatesWindow, force)
    \/ \E count \in {0, PAGE_SIZE} : NextRequest(DatesWindow, count)
    \/ SyncOver
    \/ WatcherReloadsNewer(DatesWindow)
    \/ DatesTick

SpecDates == DatesInit /\ [][DatesNext]_vars

(* C30: the page requests of one InitialSync all carry the startDate and   *)
(* endDate computed when its first page was requested; the page requests   *)
(* of one DeltaSync all carry as startDate the latest timestamp read at    *)
(* branch selection.                                                       *)
C30_OneWindowPerSync ==
    /\ dpc \in {"first", "remaining"} => dsent = {FirstPageWindow(dstarted)}
    /\ dpc = "delta" =>
          \A window \in dsent :
              dmark # Null /\ window.startDate = AsStored(dmark[1])
    /\ dpc = "done" =>
          \/ dsent = {FirstPageWindow(dstarted)}
          \/ /\ dmark # Null
             /\ \A window \in dsent : window.startDate = AsStored(dmark[1])

(* a later page was requested after the clock had advanced *)
C30_Witness ==
    /\ dpc = "remaining"
    /\ dpage >= 3
    /\ now > dstarted
    /\ dsent = {FirstPageWindow(dstarted)}

(***************************************************************************)
(* Store writes whose reload-to-persist sequences never overlap: a window  *)
(* starts a write handler only while no other window is between its        *)
(* reload and its persist.  Within a window the handler is synchronous     *)
(* code (no await between dbService.reload() and dbService.persist()), so  *)
(* nothing of the same window runs in between.                             *)
(***************************************************************************)
Pending(w) == wpc[w] \in {"syncPersist", "memoPersist", "replacePersist"}

(* the snapshot table followed here is the roster, the one the purge also  *)
(* writes; saveAuthMeToDb and saveTeamsToDb run the same statements on     *)
(* auth_me and teams                                                       *)
SnapshotTables == {"team_members"}

(* the rows a snapshot save inserts after its DELETE *)
NewSnapshot(table, teams, t) ==
    CASE table = "auth_me" -> {AuthMeRow(ApiAuthMe, t)}
      [] table = "team_members" ->
            {TeamMemberRow(ApiTeamResponse, ApiTeamResponse.teamMembers[i],
                           ApiTeam.id, t) :
                i \in 1..Len(ApiTeamResponse.teamMembers)}
      [] table = "teams" -> {TeamsRow(teams, teams[i], t) : i \in 1..Len(teams)}

(* saveAuthMeToDb, saveTeamToDb, saveTeamsToDb up to the last INSERT *)
FileBeginReplace(w, table, teams) ==
    /\ wpc[w] = "idle"
    /\ mem' = [mem EXCEPT ![w] =
                  [reload(w)[w] EXCEPT ![table] = NewSnapshot(table, teams, now)]]
    /\ wpc' = [wpc EXCEPT ![w] = "replacePersist"]
    /\ thrownAt' = 0
    /\ NoFileWrite
    /\ UNCHANGED <<now, open, twiceVars, orchVars, restVars>>

Alone(w) == \A o \in Windows \ {w} : ~Pending(o)

(* one page of events per sync write *)
SerialBatches == {events \in FileBatches : Len(events) <= 1}

SerialNext ==
    \/ \E w \in Windows : FileInitialize(w)
    \/ \E w \in Windows, days \in RetentionDays :
          Alone(w) /\ FileAutoDelete(w, days)
    \/ \E w \in Windows, events \in SerialBatches, failAt \in 0..1 :
          failAt <= Len(events) /\ Alone(w) /\ FileBeginEvents(w, events, failAt)
    \/ \E w \in Windows : Alone(w) /\ FileBeginSummary(w)
    \/ \E w \in Windows : Alone(w) /\ FileBeginPurge(w)
    \/ \E w \in Windows, key \in NaturalKeys, note \in Notes :
          Alone(w) /\ FileBeginMemo(w, key, note)
    \/ \E w \in Windows, table \in SnapshotTables :
          Alone(w) /\ FileBeginReplace(w, table, <<ApiTeam>>)
    \/ \E w \in Windows : FilePersist(w)
    \/ \E w \in Windows : FileWatcherReload(w)
    \/ \E w \in Windows : FileClose(w)

SpecSerial == FileInit /\ [][SerialNext]_vars

(* the handler of w ends with its persist in this step *)
HandlerPersists(w) == Pending(w) /\ wpc'[w] = "idle" /\ disk' = mem[w]

IsPrefix(s, t) == Len(s) <= Len(t) /\ SubSeq(t, 1, Len(s)) = s

(* every row of the image on disk is in the new image, except the event    *)
(* rows the handler rewrote (same key, and the note too when a sync        *)
(* rewrote them) and the membership rows a purge removed                   *)
KeepsPersisted(w) ==
    /\ \A r \in disk.usage_events :
          \E q \in disk'.usage_events :
              /\ KeyOf(q) = KeyOf(r)
              /\ wpc[w] = "syncPersist" => q.note = r.note
              /\ wpc[w] = "memoPersist" => [q EXCEPT !.note = r.note] = r
              /\ wpc[w] = "replacePersist" => q = r
    /\ IsPrefix(disk.usage_summary, disk'.usage_summary)
    /\ IF wpc[w] = "replacePersist"
       THEN /\ disk'.usage_summary = disk.usage_summary
            /\ Cardinality({table \in SnapshotTables :
                                disk'[table] # disk[table]}) <= 1
       ELSE /\ disk'.auth_me = disk.auth_me
            /\ disk'.teams = disk.teams
            /\ disk'.team_members \subseteq disk.team_members

RECURSIVE IsSubSeq(_, _)
IsSubSeq(s, t) ==
    IF s = << >> THEN TRUE
    ELSE IF t = << >> THEN FALSE
    ELSE IF Head(s) = Head(t) THEN IsSubSeq(Tail(s), Tail(t))
    ELSE IsSubSeq(s, Tail(t))

(* the step is the deleteOlderThan of some window's activation *)
RetentionCleanupStep ==
    \E w \in Windows : wpc[w] = "activated" /\ wpc'[w] = "idle"

(* C32: the summary rows on disk change only by one row being appended    *)
(* (a summary save) or by rows being removed by deleteOlderThan; an        *)
(* existing row is never modified and no other operation removes one.      *)
C32_SummaryAppendOnly ==
    [][disk'.usage_summary # disk.usage_summary =>
          \/ /\ IsPrefix(disk.usage_summary, disk'.usage_summary)
             /\ Len(disk'.usage_summary) = Len(disk.usage_summary) + 1
          \/ /\ RetentionCleanupStep
             /\ IsSubSeq(disk'.usage_summary, disk.usage_summary)]_vars

(***************************************************************************)
(* The snapshot saves with their failures.  saveAuthMeToDb, saveTeamToDb   *)
(* and saveTeamsToDb run DELETE and the INSERTs outside a transaction; id  *)
(* is the PRIMARY KEY of the three tables, so the INSERT of a second row   *)
(* with an id already inserted throws, and any INSERT may throw for        *)
(* another reason (failAt).  The exception leaves the function before      *)
(* dbService.persist().                                                    *)
(***************************************************************************)
ApiMember(id) ==
    [id |-> id, name |-> "m", role |-> "TEAM_ROLE_MEMBER",
     email |-> "m@example.com"]

RosterResponses ==
    {[userId |-> 1, teamMembers |-> ms] :
        ms \in {<< >>, <<ApiMember(1)>>, <<ApiMember(1), ApiMember(2)>>,
                <<ApiMember(1), ApiMember(2), ApiMember(1)>>}}

TeamsResponses == {<< >>, <<ApiTeam>>, <<ApiTeam, ApiTeam>>}

AuthMeResponses == {ApiAuthMe, [ApiAuthMe EXCEPT !.name = "renamed"]}

SnapshotResponses(table) ==
    CASE table = "auth_me" -> AuthMeResponses
      [] table = "team_members" -> RosterResponses
      [] table = "teams" -> TeamsResponses

ReplacedTables == {"auth_me", "team_members", "teams"}

(* the rows the INSERT statements of a snapshot save are given, in order *)
SnapshotRows(table, response, t) ==
    CASE table = "auth_me" -> <<AuthMeRow(response, t)>>
      [] table = "team_members" ->
            [i \in 1..Len(response.teamMembers) |->
                TeamMemberRow(response, response.teamMembers[i], ApiTeam.id, t)]
      [] table = "teams" ->
            [i \in 1..Len(response) |-> TeamsRow(response, response[i], t)]

(* db.run(insertSql) for rows[i], rows[i+1], ...: stops at the first INSERT *)
(* that throws                                                             *)
RECURSIVE InsertRows(_, _, _, _)
InsertRows(inserted, rows, i, failAt) ==
    IF i > Len(rows) THEN [rows |-> inserted, threw |-> FALSE]
    ELSE IF i = failAt \/ \E q \in inserted : q.id = rows[i].id
         THEN [rows |-> inserted, threw |-> TRUE]
         ELSE InsertRows(inserted \cup {rows[i]}, rows, i + 1, failAt)

(* DELETE FROM table, then the INSERTs, on the reloaded database *)
ReplaceSnapshot(before, table, response, failAt, t) ==
    LET done == InsertRows({}, SnapshotRows(table, response, t), 1, failAt)
    IN  [db |-> [before EXCEPT ![table] = done.rows], threw |-> done.threw]

(* dbService.persist() is the statement after the last INSERT *)
ReachesPersistAlways(threw) == TRUE

ReachesPersist(threw) == ~threw

replaceFrame == <<open, wpc, twiceVars, orchVars, tokenVars, seen, fetchVars,
                  persistVars, retentionVars, closeVars, viewVars, leakVars,
                  staleVars, dateVars, memoVars, readVars>>

ReplaceInit ==
    /\ disk = EmptyDb
    /\ notif = Null
    /\ mem = [w \in Windows |-> EmptyDb]
    /\ open = [w \in Windows |-> TRUE]
    /\ now = 0
    /\ written = << >>
    /\ thrownAt = 0
    /\ wpc = [w \in Windows |-> "idle"]
    /\ phase = "seed"
    /\ batch = << >>
    /\ snap = EmptyDb
    /\ before2 = EmptyDb
    /\ lockFile = NoLock
    /\ WindowsOff

(* saveAuthMeToDb / saveTeamToDb / saveTeamsToDb as one window runs it *)
SaveSnapshot(w, table, response, failAt) ==
    LET txn == ReplaceSnapshot(reload(w)[w], table, response, failAt, now)
    IN  /\ mem' = [mem EXCEPT ![w] = txn.db]
        /\ IF ReachesPersist(txn.threw)
           THEN persist(w, txn.db)
           ELSE written' = << >> /\ UNCHANGED <<disk, notif>>
        /\ replaced' = [table |-> table, response |-> Some(response),
                        threw |-> txn.threw, before |-> Some(disk)]
        /\ thrownAt' = 0
        /\ UNCHANGED <<now, replaceFrame>>

(* a later store write of the same or another window: handleUpdateMemo *)
ReplaceThenMemo(w, key, note) ==
    /\ handleUpdateMemo(w, key, note)
    /\ replaced' = NoReplace
    /\ UNCHANGED <<now, replaceFrame>>

(* the watcher's reload in a window *)
ReplaceWatcher(w) ==
    /\ mem[w] # disk
    /\ mem' = reload(w)
    /\ replaced' = NoReplace
    /\ thrownAt' = 0
    /\ NoFileWrite
    /\ UNCHANGED <<now, replaceFrame>>

ReplaceNext ==
    \/ \E w \in Windows, table \in ReplacedTables :
          \E response \in SnapshotResponses(table), failAt \in 0..1 :
              SaveSnapshot(w, table, response, failAt)
    \/ \E w \in Windows : ReplaceThenMemo(w, <<1, "auto", "u1">>, "memo")
    \/ \E w \in Windows : ReplaceWatcher(w)

SpecReplace == ReplaceInit /\ [][ReplaceNext]_vars

(* C33: after a snapshot save that succeeded the table on disk holds       *)
(* exactly the rows of the new snapshot and the other tables are as        *)
(* before; after one that failed usage.db is the image it was before the   *)
(* call; and no table on disk is ever a partially inserted snapshot.       *)
C33_SnapshotAllOrNothing ==
    /\ replaced.table # "none" =>
          LET rows == SnapshotRows(replaced.table, replaced.response[1], now)
          IN  IF replaced.threw
              THEN disk = replaced.before[1]
              ELSE /\ disk[replaced.table] = {rows[i] : i \in 1..Len(rows)}
                   /\ Cardinality(disk[replaced.table]) = Len(rows)
                   /\ \A other \in ReplacedTables \ {replaced.table} :
                         disk[other] = replaced.before[1][other]
    /\ \A table \in ReplacedTables :
          Cardinality(disk[table]) = Cardinality({q.id : q \in disk[table]})
    /\ \A table \in ReplacedTables :
          \A q \in disk[table] :
              LET rows == SnapshotRows(table, q.raw_json, q.fetched_at)
              IN  disk[table] = {rows[i] : i \in 1..Len(rows)}

(* a roster save failed on a duplicate member id after the DELETE and two  *)
(* INSERTs, with a complete roster on disk                                 *)
C33_Witness ==
    /\ replaced.table = "team_members"
    /\ replaced.threw
    /\ disk.team_members # {}
    /\ \E w \in Windows :
          /\ Cardinality(mem[w].team_members) = 2
          /\ mem[w].team_members # disk.team_members

(***************************************************************************)
(* The note update against stores with events, summaries, identity and     *)
(* team list; the window's in-memory database may be older than usage.db.  *)
(***************************************************************************)
MemoStores ==
    {[base EXCEPT !.usage_events = rows, !.usage_summary = sums] :
        base \in {EmptyDb, StoredIdentity},
        rows \in SUBSET {InsertedRow(e, 0) : e \in FileEvents},
        sums \in {<< >>, <<SummaryRow(ApiUsageSummary, 0)>>}}

(* the keys a memo message carries: those of the events and one that no   *)
(* row has                                                                 *)
MemoKeys == NaturalKeys \cup {<<2, "auto", "u1">>}
MemoNotes == Notes \cup {"other"}

MemoInit ==
    /\ disk \in MemoStores
    /\ notif = Some(0)
    /\ mem \in [Windows -> {EmptyDb, disk}]
    /\ open = [w \in Windows |-> TRUE]
    /\ now = 0
    /\ written = << >>
    /\ thrownAt = 0
    /\ wpc = [w \in Windows |-> "idle"]
    /\ phase = "seed"
    /\ batch = << >>
    /\ snap = EmptyDb
    /\ before2 = EmptyDb
    /\ lockFile = NoLock
    /\ WindowsOff

memoFrame == <<open, wpc, twiceVars, orchVars, tokenVars, seen, fetchVars,
               persistVars, retentionVars, closeVars, viewVars, leakVars,
               staleVars, dateVars, replaceVars, readVars>>

(* the webview posts updateMemo and the handler runs *)
UpdateMemo(w, key, note) ==
    /\ handleUpdateMemo(w, key, note)
    /\ memoCall' = [called |-> TRUE, key |-> Some(key), note |-> note,
                    before |-> Some(disk)]
    /\ UNCHANGED <<now, memoFrame>>

MemoNext ==
    \E w \in Windows, key \in MemoKeys, note \in MemoNotes :
        UpdateMemo(w, key, note)

SpecMemo == MemoInit /\ [][MemoNext]_vars

(* C34: after a note update usage.db differs from the image before it only *)
(* in the note of the event row with the given key; the other columns of   *)
(* that row, the other event rows and the other tables are as before, and  *)
(* with no row of that key usage.db holds what it held.                    *)
C34_OnlyTheNoteChanges ==
    memoCall.called =>
        LET before == memoCall.before[1]
            key == memoCall.key[1]
        IN  /\ \A r \in before.usage_events :
                  IF KeyOf(r) = key
                  THEN \E q \in disk.usage_events :
                          /\ q.note = memoCall.note
                          /\ [q EXCEPT !.note = r.note] = r
                  ELSE r \in disk.usage_events
            /\ Cardinality(disk.usage_events) = Cardinality(before.usage_events)
            /\ disk.usage_summary = before.usage_summary
            /\ disk.auth_me = before.auth_me
            /\ disk.team_members = before.team_members
            /\ disk.teams = before.teams
            /\ (\A r \in before.usage_events : KeyOf(r) # key) => disk = before

(* a note was written to one of two stored events *)
C34_Witness ==
    /\ memoCall.called
    /\ memoCall.note = "other"
    /\ Cardinality(disk.usage_events) = 2
    /\ disk # memoCall.before[1]
    /\ disk.auth_me # {}

(***************************************************************************)
(* The force-initial flag of a running window.                             *)
(***************************************************************************)
EarlyReturns == {"dbNotReady", "guardBusy", "lockBusy"}

(* the step is the branch selection of w *)
BranchSelection(w) == pc[w] = "getToken" /\ pc'[w] = "phase1"

(* C36: a refreshData invocation that returns early (store not ready,      *)
(* guard busy, lock unavailable, token missing) leaves the force-initial   *)
(* flag as it is; in a running window the flag is cleared only by the      *)
(* invocation that performs branch selection, and that one takes           *)
(* InitialSync.                                                            *)
C36_ForceFlagKept ==
    [][/\ last' \in EarlyReturns => forceInitialSync' = forceInitialSync
       /\ \A w \in Windows :
             /\ (pc[w] = "getToken" /\ token = Null /\ pc'[w] = "idle")
                   => forceInitialSync'[w] = forceInitialSync[w]
             /\ (forceInitialSync[w] /\ ~forceInitialSync'[w] /\ pc'[w] # "off")
                   => BranchSelection(w) /\ branch'[w] = "initial"]_vars

(* an invocation returned on the busy guard while the flag was set and the *)
(* store held events                                                       *)
C36_Witness ==
    \E w \in Windows :
        /\ forceInitialSync[w]
        /\ last = "guardBusy"
        /\ inFlight[w]
        /\ mem[w].usage_events # {}

(***************************************************************************)
(* The ends of a sync.  Every awaited call settles (withRetry and the      *)
(* request timeout bound each network call), so the continuation of every  *)
(* await eventually runs; fs.unlinkSync in releaseLock succeeds or throws. *)
(***************************************************************************)
GuardInit ==
    /\ Init
    /\ lockFile = NoLock

guardFrame == <<restVars>>

GuardActivate(w) == Activate(w, TRUE, 0) /\ UNCHANGED guardFrame

GuardSetToken(w) == SetToken(w, "tokA") /\ UNCHANGED guardFrame

GuardRefresh(w) == RefreshData(w) /\ UNCHANGED guardFrame

GuardAfterGetToken(w) ==
    \E err \in UnlinkErrors : AfterGetToken(w, err) /\ UNCHANGED guardFrame

GuardAfterPhase1(w) ==
    \E r \in Phase1EventsOnly, failAt \in 0..1, err \in UnlinkErrors :
        AfterPhase1(w, r, failAt, err) /\ UNCHANGED guardFrame

GuardBackgroundSettles(w) ==
    \E remaining \in Settled({<< >>, <<SyncEvent>>}), failAt \in 0..1,
       err \in UnlinkErrors :
        BackgroundSettles(w, remaining, failAt, err) /\ UNCHANGED guardFrame

GuardNext ==
    \/ \E w \in Windows : GuardActivate(w)
    \/ \E w \in Windows : GuardSetToken(w)
    \/ \E w \in Windows : GuardRefresh(w)
    \/ \E w \in Windows : GuardAfterGetToken(w)
    \/ \E w \in Windows : GuardAfterPhase1(w)
    \/ \E w \in Windows : GuardBackgroundSettles(w)

SpecGuard == GuardInit /\ [][GuardNext]_vars

(* every continuation of an await runs *)
FairSpecGuard ==
    /\ SpecGuard
    /\ \A w \in Windows :
          /\ WF_vars(GuardAfterGetToken(w))
          /\ WF_vars(GuardAfterPhase1(w))
          /\ WF_vars(GuardBackgroundSettles(w))

(* C37: the single-flight guard of a window, once set, is eventually       *)
(* cleared, however the sync ends: success, failed events fetch, throwing  *)
(* store write, failed background continuation, or a releaseLock() that    *)
(* re-throws a deletion error.                                             *)
C37_GuardEventuallyCleared ==
    \A w \in Windows : inFlight[w] ~> ~inFlight[w]

(***************************************************************************)
(* Who deletes fetch.lock.                                                 *)
(***************************************************************************)
(* fetch.lock was written by the acquireLock() of window o, which has not  *)
(* called releaseLock() since                                              *)
WrittenByHolder(o) ==
    /\ lockFile.kind = "json"
    /\ lockFile.pid = Some(o)
    /\ holding[o]

(* the step is a releaseLock() of window w that unlinks the file: the end  *)
(* of its sync or of its background continuation, or its deactivate        *)
Unlinks(w) ==
    /\ lockFile.kind # "absent"
    /\ lockFile' = NoLock
    /\ pc'[w] # pc[w]

(* C38: no releaseLock() of a window (at the end of a sync, at the end of  *)
(* a background continuation, in deactivate) deletes a fetch.lock that     *)
(* another window's acquireLock() wrote and that window still holds.       *)
C38_OnlyHolderDeletes ==
    [][\A w, o \in Windows : (Unlinks(w) /\ WrittenByHolder(o)) => w = o]_vars

(* C39: the handling of a change notification (the watcher's reload, the  *)
(* status bar refresh and the webview refresh) writes neither usage.db    *)
(* nor db-updated.json: the step leaves both files, the count of database *)
(* writes and the announced write as they were, so handling a             *)
(* notification never produces another notification, in the handling      *)
(* window or in a sibling.                                                *)
C39_WatcherWritesNothing ==
    [][\A w \in Windows :
          watched' = w =>
              /\ disk' = disk
              /\ notif' = notif
              /\ dbVersion' = dbVersion
              /\ announced' = announced
              /\ written' = written
              /\ wpc' = wpc]_vars

(* both windows have handled the notification of the latest persist, one  *)
(* of them just now, and the persist count still equals what was          *)
(* announced                                                              *)
C39_Witness ==
    /\ watched \in Windows
    /\ dbVersion >= 2
    /\ announced = dbVersion
    /\ \A w \in Windows : observed[w] = announced /\ mem[w] = disk
    /\ \A w \in Windows : wpc[w] = "idle"

====
